---- MODULE Spec2Model ----
(***************************************************************************)
(* Turn scheduler of the multi-agent chat (app/core/chat_manager.py): the  *)
(* stage check, the routing-decision parser, the single-round and          *)
(* multi-round collaboration loops, and the registry they read             *)
(* (app/core/agent_manager.py).                                            *)
(*                                                                         *)
(* Text is modelled as a sequence of characters, one string per character. *)
(* A character outside ASCII is written as its code point ("U+4E13"): it   *)
(* has no letter case and is no whitespace, as in Python.                  *)
(***************************************************************************)
EXTENDS Naturals, Integers, Sequences, FiniteSets, TLC

(***************************************************************************)
(* Python str operations used by the code                                  *)
(***************************************************************************)
UpperChars == <<"A", "B", "C", "D", "E", "F", "G", "H", "I", "J", "K", "L", "M",
                "N", "O", "P", "Q", "R", "S", "T", "U", "V", "W", "X", "Y", "Z">>

LowerChars == <<"a", "b", "c", "d", "e", "f", "g", "h", "i", "j", "k", "l", "m",
                "n", "o", "p", "q", "r", "s", "t", "u", "v", "w", "x", "y", "z">>

\* the characters str.strip() removes, among the characters of the model
Whitespace == {" ", "\t", "\n", "\r"}

\* the characters .strip('"\'') removes
QuoteChars == {"\"", "'"}

\* the lower-case letter of each upper-case letter, and the reverse
LowerOf ==
    [c \in {UpperChars[i] : i \in DOMAIN UpperChars} |->
        LowerChars[CHOOSE i \in DOMAIN UpperChars : UpperChars[i] = c]]

UpperOf ==
    [c \in {LowerChars[i] : i \in DOMAIN LowerChars} |->
        UpperChars[CHOOSE i \in DOMAIN LowerChars : LowerChars[i] = c]]

LowerChar(c) == IF c \in DOMAIN LowerOf THEN LowerOf[c] ELSE c

UpperChar(c) == IF c \in DOMAIN UpperOf THEN UpperOf[c] ELSE c

\* str.lower()
Lower(s) == [i \in 1..Len(s) |-> LowerChar(s[i])]

\* str.upper()
Upper(s) == [i \in 1..Len(s) |-> UpperChar(s[i])]

RECURSIVE LStripChars(_, _)
LStripChars(s, cs) ==
    IF s # <<>> /\ Head(s) \in cs THEN LStripChars(Tail(s), cs) ELSE s

RECURSIVE RStripChars(_, _)
RStripChars(s, cs) ==
    IF s # <<>> /\ s[Len(s)] \in cs THEN RStripChars(SubSeq(s, 1, Len(s) - 1), cs) ELSE s

\* str.strip(chars)
StripChars(s, cs) == RStripChars(LStripChars(s, cs), cs)

\* str.strip()
Strip(s) == StripChars(s, Whitespace)

\* str.replace(c, "")
Remove(s, c) == SelectSeq(s, LAMBDA x : x # c)

\* sub in s
Contains(s, sub) ==
    \E i \in 1..(Len(s) + 1) :
        /\ i + Len(sub) - 1 <= Len(s)
        /\ sub = <<>> \/ s[i] = sub[1]
        /\ SubSeq(s, i, i + Len(sub) - 1) = sub

\* str.startswith(c), str.endswith(c) for one character
StartsWith(s, c) == s # <<>> /\ s[1] = c

EndsWith(s, c) == s # <<>> /\ s[Len(s)] = c

(***************************************************************************)
(* Registry keys, role labels and the literals of the code                 *)
(***************************************************************************)
s_expert == <<"e", "x", "p", "e", "r", "t">>

s_assistant == <<"a", "s", "s", "i", "s", "t", "a", "n", "t">>

s_peer == <<"p", "e", "e", "r">>

s_user == <<"u", "s", "e", "r">>

s_agent == <<"a", "g", "e", "n", "t">>

s_companion == <<"c", "o", "m", "p", "a", "n", "i", "o", "n">>

s_STOP == <<"S", "T", "O", "P">>

\* the names the registry gives the three participants
zh_expert == <<"U+4E13", "U+5BB6", "U+667A", "U+80FD", "U+4F53">>

zh_assistant == <<"U+52A9", "U+6559", "U+667A", "U+80FD", "U+4F53">>

zh_peer == <<"U+540C", "U+4F34", "U+667A", "U+80FD", "U+4F53">>

\* Python's None, where the code holds no agent or no text
None == <<"None">>

(***************************************************************************)
(* json.loads on the texts of the model: one object whose members have     *)
(* string keys and whose values are strings (with the escapes \" \\ \/ \n  *)
(* \t), integers, null, true or false.  A repeated key keeps its last      *)
(* value, text after the closing brace is an error, a raw control          *)
(* character inside a string is an error.  Nested values, fractions and    *)
(* \u escapes are not among the texts the model draws.                     *)
(***************************************************************************)
JsonWhitespace == {" ", "\t", "\n", "\r"}

JsonDigits == {"0", "1", "2", "3", "4", "5", "6", "7", "8", "9"}

JsonFail == [ok |-> FALSE, kind |-> "none", str |-> <<>>, next |-> 0]

RECURSIVE SkipWs(_, _)
SkipWs(s, i) ==
    IF i <= Len(s) /\ s[i] \in JsonWhitespace THEN SkipWs(s, i + 1) ELSE i

JsonEscape(c) ==
    CASE c = "n" -> "\n"
      [] c = "t" -> "\t"
      [] OTHER -> c

\* scans a string literal whose opening quote is at i - 1; acc is its value so far
RECURSIVE ScanString(_, _, _)
ScanString(s, i, acc) ==
    IF i > Len(s) THEN JsonFail
    ELSE IF s[i] = "\"" THEN [ok |-> TRUE, kind |-> "str", str |-> acc, next |-> i + 1]
    ELSE IF s[i] \in {"\t", "\n", "\r"} THEN JsonFail
    ELSE IF s[i] = "\\"
         THEN IF i + 1 <= Len(s) /\ s[i + 1] \in {"\"", "\\", "/", "n", "t"}
              THEN ScanString(s, i + 2, Append(acc, JsonEscape(s[i + 1])))
              ELSE JsonFail
    ELSE ScanString(s, i + 1, Append(acc, s[i]))

RECURSIVE ScanDigits(_, _)
ScanDigits(s, i) ==
    IF i <= Len(s) /\ s[i] \in JsonDigits THEN ScanDigits(s, i + 1) ELSE i

\* the digits of a number run from d up to e - 1: (0|[1-9][0-9]*)
NumberOf(s, d, e) ==
    IF e = d THEN JsonFail
    ELSE IF s[d] = "0" /\ e > d + 1
         THEN [ok |-> TRUE, kind |-> "other", str |-> <<>>, next |-> d + 1]
    ELSE [ok |-> TRUE, kind |-> "other", str |-> <<>>, next |-> e]

\* an integer starting at i, with its sign
ScanNumber(s, i) ==
    IF s[i] = "-" THEN NumberOf(s, i + 1, ScanDigits(s, i + 1))
    ELSE NumberOf(s, i, ScanDigits(s, i))

ScanLiteral(s, i, word) ==
    IF i + Len(word) - 1 <= Len(s) /\ SubSeq(s, i, i + Len(word) - 1) = word
    THEN [ok |-> TRUE, kind |-> "other", str |-> <<>>, next |-> i + Len(word)]
    ELSE JsonFail

ParseValue(s, i) ==
    IF i > Len(s) THEN JsonFail
    ELSE IF s[i] = "\"" THEN ScanString(s, i + 1, <<>>)
    ELSE IF s[i] \in JsonDigits \cup {"-"} THEN ScanNumber(s, i)
    ELSE IF s[i] = "n" THEN ScanLiteral(s, i, <<"n", "u", "l", "l">>)
    ELSE IF s[i] = "t" THEN ScanLiteral(s, i, <<"t", "r", "u", "e">>)
    ELSE IF s[i] = "f" THEN ScanLiteral(s, i, <<"f", "a", "l", "s", "e">>)
    ELSE JsonFail

NoAgentField == [present |-> FALSE, kind |-> "none", str |-> <<>>]

LoadsFail == [ok |-> FALSE, agent |-> NoAgentField]

\* the members of an object from the key at i on; agent is parsed.get("agent") so far
RECURSIVE ParseMembers(_, _, _)
RECURSIVE MemberKey(_, _, _)
RECURSIVE MemberColon(_, _, _, _)
RECURSIVE MemberValue(_, _, _, _)
RECURSIVE MemberEnd(_, _, _)

ParseMembers(s, i, agent) ==
    IF i > Len(s) \/ s[i] # "\"" THEN LoadsFail
    ELSE MemberKey(s, ScanString(s, i + 1, <<>>), agent)

\* k: the member's key as scanned
MemberKey(s, k, agent) ==
    IF ~k.ok THEN LoadsFail
    ELSE MemberColon(s, k, SkipWs(s, k.next), agent)

\* c: where the colon has to be
MemberColon(s, k, c, agent) ==
    IF c > Len(s) \/ s[c] # ":" THEN LoadsFail
    ELSE MemberValue(s, k, ParseValue(s, SkipWs(s, c + 1)), agent)

\* v: the member's value as scanned
MemberValue(s, k, v, agent) ==
    IF ~v.ok THEN LoadsFail
    ELSE MemberEnd(s, SkipWs(s, v.next),
                   IF k.str = s_agent
                   THEN [present |-> TRUE, kind |-> v.kind, str |-> v.str]
                   ELSE agent)

\* e: where the comma or the closing brace has to be
MemberEnd(s, e, agent) ==
    IF e > Len(s) THEN LoadsFail
    ELSE IF s[e] = "," THEN ParseMembers(s, SkipWs(s, e + 1), agent)
    ELSE IF s[e] = "}"
         THEN IF SkipWs(s, e + 1) > Len(s)
              THEN [ok |-> TRUE, agent |-> agent]
              ELSE LoadsFail
    ELSE LoadsFail

\* the object whose opening brace is at i - 1 and whose first token is at j
ObjectFrom(s, j) ==
    IF j <= Len(s) /\ s[j] = "}"
    THEN IF SkipWs(s, j + 1) > Len(s)
         THEN [ok |-> TRUE, agent |-> NoAgentField]
         ELSE LoadsFail
    ELSE ParseMembers(s, j, NoAgentField)

\* json.loads(s) for a text s that starts with "{": ok is FALSE where json.loads raises
json_loads(s) ==
    IF s = <<>> \/ s[1] # "{" THEN LoadsFail
    ELSE ObjectFrom(s, SkipWs(s, 2))

(***************************************************************************)
(* ChatManager._parse_routing_decision                                     *)
(***************************************************************************)
\* next_agent_key after parsed.get("agent"), or after the except branch
agent_field_or_text(parsed, decision_content) ==
    IF parsed.ok
    THEN IF parsed.agent.present /\ parsed.agent.kind = "str"
         THEN [is_str |-> TRUE, str |-> parsed.agent.str]
         ELSE [is_str |-> FALSE, str |-> <<>>]
    ELSE [is_str |-> TRUE, str |-> Strip(decision_content)]

\* next_agent_key as the try block leaves it, given the stripped text
candidate_key(stripped, decision_content) ==
    IF StartsWith(stripped, "{") /\ EndsWith(stripped, "}")
    THEN agent_field_or_text(json_loads(stripped), decision_content)
    ELSE [is_str |-> TRUE, str |-> stripped]

\* as normalize_key, with the quotes around the key kept
normalize_key_keeps_quotes(raw) ==
    IF raw.is_str
    THEN Lower(Strip(raw.str))
    ELSE s_expert

\* the key in lower case, without quotes and blanks around it; expert for no text
normalize_key(raw) ==
    IF raw.is_str
    THEN Lower(StripChars(Strip(raw.str), QuoteChars))
    ELSE s_expert

\* valid_keys.get(next_agent_key, agent_mapping["expert"]) and the pair returned
select_agent(next_agent_key, agent_mapping) ==
    [agent_key |-> IF next_agent_key = <<>> THEN s_expert ELSE next_agent_key,
     selected_agent |->
        IF next_agent_key = s_expert THEN agent_mapping["expert"]
        ELSE IF next_agent_key = s_assistant THEN agent_mapping["assistant"]
        ELSE IF next_agent_key = s_peer THEN agent_mapping["peer"]
        ELSE agent_mapping["expert"]]

\* the pair (agent key, selected agent) the parser returns
parse_routing_decision(decision_content, agent_mapping) ==
    select_agent(normalize_key(candidate_key(Strip(decision_content), decision_content)),
                 agent_mapping)

(***************************************************************************)
(* ChatManager._is_in_fixed_order_stage and the user-intervention test     *)
(***************************************************************************)
aliases ==
    [expert    |-> {zh_expert, s_expert, s_expert \o s_agent,
                    s_expert \o <<"_">> \o s_agent},
     assistant |-> {zh_assistant, s_assistant, s_assistant \o s_agent,
                    s_assistant \o <<"_">> \o s_agent},
     peer      |-> {zh_peer, s_peer, s_companion, s_companion \o s_agent,
                    s_companion \o <<"_">> \o s_agent}]

\* as normalize, without the conversion to lower case
normalize_case_kept(name) == Remove(Remove(Strip(name), " "), "_")

normalize(name) == Remove(Remove(Lower(Strip(name)), " "), "_")

\* {normalize(a) for a in alias_set}, for each key
normalized_aliases == [key \in DOMAIN aliases |-> {normalize(a) : a \in aliases[key]}]

\* spoken_flags[key] after the scan of the history
spoken_flags(history) ==
    [key \in DOMAIN aliases |->
        \E i \in DOMAIN history : normalize(history[i].role) \in normalized_aliases[key]]

\* as next_in_fixed_order, with the assistant asked before the expert
next_in_fixed_order_assistant_first(flags) ==
    IF ~flags["assistant"] THEN [in_fixed_stage |-> TRUE, next_fixed_agent |-> "assistant"]
    ELSE IF ~flags["expert"] THEN [in_fixed_stage |-> TRUE, next_fixed_agent |-> "expert"]
    ELSE IF ~flags["peer"] THEN [in_fixed_stage |-> TRUE, next_fixed_agent |-> "peer"]
    ELSE [in_fixed_stage |-> FALSE, next_fixed_agent |-> "None"]

\* the first participant, in the fixed order, whose flag is not set
next_in_fixed_order(flags) ==
    IF ~flags["expert"] THEN [in_fixed_stage |-> TRUE, next_fixed_agent |-> "expert"]
    ELSE IF ~flags["assistant"] THEN [in_fixed_stage |-> TRUE, next_fixed_agent |-> "assistant"]
    ELSE IF ~flags["peer"] THEN [in_fixed_stage |-> TRUE, next_fixed_agent |-> "peer"]
    ELSE [in_fixed_stage |-> FALSE, next_fixed_agent |-> "None"]

\* as is_in_fixed_order_stage, with the stage over once the expert and the assistant
\* have spoken
is_in_fixed_order_stage_without_peer(history) ==
    IF spoken_flags(history)["expert"] /\ spoken_flags(history)["assistant"]
    THEN [in_fixed_stage |-> FALSE, next_fixed_agent |-> "None"]
    ELSE next_in_fixed_order(spoken_flags(history))

is_in_fixed_order_stage(history) == next_in_fixed_order(spoken_flags(history))

is_user_message(msg) == Lower(Strip(msg.role)) = s_user

detect_user_intervention(history) ==
    history # <<>> /\ is_user_message(history[Len(history)])

\* the text of a registry key
KeyText(key) ==
    CASE key = "expert" -> s_expert
      [] key = "assistant" -> s_assistant
      [] key = "peer" -> s_peer

(***************************************************************************)
(* AgentRouter: scores are kept exact, as numerators over a denominator     *)
(***************************************************************************)
\* the members of AgentType, in the order of the enumeration
AgentTypes == <<"expert", "assistant", "peer">>

\* the keywords of the three categories, in the order of the source
expert_keywords ==
    <<<<"U+539F", "U+7406">>, <<"U+7406", "U+8BBA">>, <<"U+6982", "U+5FF5">>, <<"U+5B9A", "U+4E49">>,
     <<"U+672C", "U+8D28">>, <<"U+673A", "U+5236">>, <<"U+89C4", "U+5F8B">>, <<"U+516C", "U+5F0F">>,
     <<"U+5B9A", "U+7406">>, <<"U+4E3A", "U+4EC0", "U+4E48">>, <<"U+539F", "U+56E0">>, <<"U+5206", "U+6790">>,
     <<"U+89E3", "U+91CA">>, <<"U+63A2", "U+8BA8">>, <<"U+7814", "U+7A76">>, <<"U+6DF1", "U+5165">>,
     <<"U+8BE6", "U+7EC6">>, <<"U+5B66", "U+672F">>, <<"U+8BBA", "U+6587">>, <<"U+7814", "U+7A76">>,
     <<"U+6587", "U+732E">>, <<"U+6743", "U+5A01">>, <<"U+4E13", "U+4E1A">>, <<"U+79D1", "U+5B66">>,
     <<"U+7CFB", "U+7EDF">>>>

\* the keywords of the three categories, in the order of the source
assistant_keywords ==
    <<<<"U+600E", "U+4E48", "U+505A">>, <<"U+5982", "U+4F55">>, <<"U+65B9", "U+6CD5">>, <<"U+6B65", "U+9AA4">>,
     <<"U+6D41", "U+7A0B">>, <<"U+8FC7", "U+7A0B">>, <<"U+64CD", "U+4F5C">>, <<"U+5B9E", "U+73B0">>,
     <<"U+7EC3", "U+4E60">>, <<"U+9898", "U+76EE">>, <<"U+4F5C", "U+4E1A">>, <<"U+4E60", "U+9898">>,
     <<"U+8BAD", "U+7EC3">>, <<"U+5DE9", "U+56FA">>, <<"U+590D", "U+4E60">>, <<"U+68C0", "U+6D4B">>,
     <<"U+6307", "U+5BFC">>, <<"U+5E2E", "U+52A9">>, <<"U+6559">>, <<"U+5B66", "U+4E60">>,
     <<"U+638C", "U+63E1">>, <<"U+63D0", "U+9AD8">>, <<"U+6539", "U+8FDB">>, <<"U+5EFA", "U+8BAE">>>>

\* the keywords of the three categories, in the order of the source
peer_keywords ==
    <<<<"U+8BA8", "U+8BBA">>, <<"U+4EA4", "U+6D41">>, <<"U+5206", "U+4EAB">>, <<"U+804A", "U+804A">>,
     <<"U+8C08", "U+8C08">>, <<"U+770B", "U+6CD5">>, <<"U+89C2", "U+70B9">>, <<"U+60F3", "U+6CD5">>,
     <<"U+56F0", "U+96BE">>, <<"U+632B", "U+6298">>, <<"U+7126", "U+8651">>, <<"U+538B", "U+529B">>,
     <<"U+9F13", "U+52B1">>, <<"U+652F", "U+6301">>, <<"U+966A", "U+4F34">>, <<"U+7406", "U+89E3">>,
     <<"U+65E5", "U+5E38">>, <<"U+751F", "U+6D3B">>, <<"U+7ECF", "U+9A8C">>, <<"U+611F", "U+53D7">>,
     <<"U+5FC3", "U+60C5">>, <<"U+72B6", "U+6001">>, <<"U+60C5", "U+51B5">>, <<"U+4F53", "U+9A8C">>>>

\* the subject table, in the order the loop visits it
subject_preferences ==
    <<[subj |-> <<"U+6570", "U+5B66">>, preferred_agent |-> "expert"],
     [subj |-> <<"U+7269", "U+7406">>, preferred_agent |-> "expert"],
     [subj |-> <<"U+5316", "U+5B66">>, preferred_agent |-> "expert"],
     [subj |-> <<"U+7F16", "U+7A0B">>, preferred_agent |-> "assistant"],
     [subj |-> <<"U+8BED", "U+8A00">>, preferred_agent |-> "peer"],
     [subj |-> <<"U+5386", "U+53F2">>, preferred_agent |-> "peer"],
     [subj |-> <<"U+6587", "U+5B66">>, preferred_agent |-> "peer"]>>

\* the number of list entries that occur in the lower-cased question
keyword_count(keywords, question_lower) ==
    Cardinality({i \in DOMAIN keywords : Contains(question_lower, keywords[i])})

counts_of(question_lower) ==
    [expert    |-> keyword_count(expert_keywords, question_lower),
     assistant |-> keyword_count(assistant_keywords, question_lower),
     peer      |-> keyword_count(peer_keywords, question_lower)]

largest_of(scores) ==
    CHOOSE n \in {scores[AgentTypes[i]] : i \in DOMAIN AgentTypes} :
        \A i \in DOMAIN AgentTypes : scores[AgentTypes[i]] <= n

\* the normalised scores are scores[k] / max_score
normalized_scores(scores, largest) ==
    [scores |-> scores, max_score |-> IF largest > 0 THEN largest ELSE 1]

\* AgentRouter._analyze_keywords
analyze_keywords(question) ==
    LET scores == counts_of(Lower(question))
    IN  normalized_scores(scores, largest_of(scores))

NoPreference == [agent |-> "None", tenths |-> 0]

\* the first entry of the table from i on whose subject occurs in subject_lower
RECURSIVE first_preference(_, _)
first_preference(subject_lower, i) ==
    IF i > Len(subject_preferences) THEN NoPreference
    ELSE IF Contains(subject_lower, subject_preferences[i].subj)
    THEN [agent |-> subject_preferences[i].preferred_agent, tenths |-> 8]
    ELSE first_preference(subject_lower, i + 1)

\* as analyze_subject, with the weight 1.0 for a subject of the table
analyze_subject_full_weight(subject) ==
    IF subject.is_none \/ subject.text = <<>> THEN NoPreference
    ELSE [first_preference(Lower(subject.text), 1) EXCEPT
              !.tenths = IF @ = 0 THEN 0 ELSE 10]

\* AgentRouter._analyze_subject; the weight 0.8 is 8 tenths
analyze_subject(subject) ==
    IF subject.is_none \/ subject.text = <<>> THEN NoPreference
    ELSE first_preference(Lower(subject.text), 1)

\* as analyze_context, with the comprehension rate tested before the cognitive load
analyze_context_comprehension_first(context) ==
    IF context.is_none THEN NoPreference
    ELSE IF context.comprehension_rate < 4 THEN [agent |-> "assistant", tenths |-> 7]
    ELSE IF context.cognitive_load > 7 THEN [agent |-> "peer", tenths |-> 6]
    ELSE IF context.learning_progress > 7 /\ context.comprehension_rate > 7
    THEN [agent |-> "expert", tenths |-> 6]
    ELSE NoPreference

\* AgentRouter._analyze_context on a context whose three values are in tenths
analyze_context(context) ==
    IF context.is_none THEN NoPreference
    ELSE IF context.cognitive_load > 7 THEN [agent |-> "peer", tenths |-> 6]
    ELSE IF context.comprehension_rate < 4 THEN [agent |-> "assistant", tenths |-> 7]
    ELSE IF context.learning_progress > 7 /\ context.comprehension_rate > 7
    THEN [agent |-> "expert", tenths |-> 6]
    ELSE NoPreference

\* a score is num / den; 1000 * max_score is the denominator of every final score
Score(num, den) == [num |-> num, den |-> den]

\* as final_scores, with the weights of the keyword score and of the subject exchanged
final_scores_subject_first(keyword_scores, subject_preference, context_preference) ==
    [k \in {"expert", "assistant", "peer"} |->
        keyword_scores.scores[k] * 350
        + (IF subject_preference.agent = k
           THEN subject_preference.tenths * 40 * keyword_scores.max_score ELSE 0)
        + (IF context_preference.agent = k
           THEN context_preference.tenths * 25 * keyword_scores.max_score ELSE 0)]

\* final_scores: 0.4 of the keyword score, 0.35 of the subject weight and 0.25 of the
\* context weight, as numerators over 1000 * max_score
final_scores(keyword_scores, subject_preference, context_preference) ==
    [k \in {"expert", "assistant", "peer"} |->
        keyword_scores.scores[k] * 400
        + (IF subject_preference.agent = k
           THEN subject_preference.tenths * 35 * keyword_scores.max_score ELSE 0)
        + (IF context_preference.agent = k
           THEN context_preference.tenths * 25 * keyword_scores.max_score ELSE 0)]

\* max(final_scores, key=final_scores.get): the first member with the largest score
best_agent_of(scores) ==
    AgentTypes[CHOOSE i \in DOMAIN AgentTypes :
                  /\ \A j \in DOMAIN AgentTypes : scores[AgentTypes[j]] <= scores[AgentTypes[i]]
                  /\ \A j \in 1..(i - 1) : scores[AgentTypes[j]] < scores[AgentTypes[i]]]

\* sorted(final_scores.items(), key=score, reverse=True): stable, by descending score
RECURSIVE sorted_agents(_, _)
sorted_agents(scores, rest) ==
    IF rest = <<>> THEN <<>>
    ELSE <<best_agent_of([k \in DOMAIN scores |->
                             IF \E i \in DOMAIN rest : rest[i] = k THEN scores[k] ELSE -1])>>
         \o sorted_agents(scores,
                SelectSeq(rest, LAMBDA k :
                    k # best_agent_of([q \in DOMAIN scores |->
                             IF \E i \in DOMAIN rest : rest[i] = q THEN scores[q] ELSE -1])))

RoutingResult(agent_type, confidence, reason, fallback_agents) ==
    [agent_type |-> agent_type, confidence |-> confidence, reason |-> reason,
     fallback_agents |-> fallback_agents]

\* no result yet
NoResult == RoutingResult("None", Score(0, 1), "none", <<>>)

\* the length above which a question counts as long
LongQuestion == 100

q_mark == "?"

q_mark_wide == "U+FF1F"

\* as apply_default_rules, with the question mark tested before the length
apply_default_rules_mark_first(question) ==
    IF Contains(question, <<q_mark>>) \/ Contains(question, <<q_mark_wide>>)
    THEN RoutingResult("assistant", Score(600, 1000), "question", <<"expert", "peer">>)
    ELSE IF Len(question) > LongQuestion
    THEN RoutingResult("expert", Score(600, 1000), "long", <<"assistant", "peer">>)
    ELSE RoutingResult("peer", Score(500, 1000), "other", <<"assistant", "expert">>)

\* AgentRouter._apply_default_rules
apply_default_rules(question) ==
    IF Len(question) > LongQuestion
    THEN RoutingResult("expert", Score(600, 1000), "long", <<"assistant", "peer">>)
    ELSE IF Contains(question, <<q_mark>>) \/ Contains(question, <<q_mark_wide>>)
    THEN RoutingResult("assistant", Score(600, 1000), "question", <<"expert", "peer">>)
    ELSE RoutingResult("peer", Score(500, 1000), "other", <<"assistant", "expert">>)

\* as decision_of, with the fallbacks in the order expert, assistant, peer
decision_of_fallbacks_unsorted(scores, den, question) ==
    IF scores[best_agent_of(scores)] * 10 < 3 * den
    THEN apply_default_rules(question)
    ELSE RoutingResult(best_agent_of(scores),
                       Score(IF scores[best_agent_of(scores)] < den
                             THEN scores[best_agent_of(scores)] ELSE den, den),
                       "generated",
                       SelectSeq(AgentTypes,
                                 LAMBDA k : k # best_agent_of(scores) /\ scores[k] * 10 > den))

\* the result of _make_final_decision given the final scores and their denominator
decision_of(scores, den, question) ==
    IF scores[best_agent_of(scores)] * 10 < 3 * den
    THEN apply_default_rules(question)
    ELSE RoutingResult(best_agent_of(scores),
                       Score(IF scores[best_agent_of(scores)] < den
                             THEN scores[best_agent_of(scores)] ELSE den, den),
                       "generated",
                       SelectSeq(Tail(sorted_agents(scores, AgentTypes)),
                                 LAMBDA k : scores[k] * 10 > den))

\* AgentRouter._make_final_decision
make_final_decision(keyword_scores, subject_preference, context_preference, question) ==
    decision_of(final_scores(keyword_scores, subject_preference, context_preference),
                1000 * keyword_scores.max_score, question)

\* steps 1 to 3 of route_agent: its locals keyword_scores, subject_preference and
\* context_preference
analysis(question, subject, context) ==
    [keyword_scores |-> analyze_keywords(question),
     subject_preference |-> analyze_subject(subject),
     context_preference |-> analyze_context(context)]

\* step 4 of route_agent
final_result(a, question) ==
    make_final_decision(a.keyword_scores, a.subject_preference, a.context_preference,
                        question)

\* AgentRouter.route_agent, where no step of the analysis fails
route_agent(question, subject, context) ==
    final_result(analysis(question, subject, context), question)

\* the locals before step 1
NoAnalysis ==
    [keyword_scores |-> [scores |-> [expert |-> 0, assistant |-> 0, peer |-> 0],
                         max_score |-> 1],
     subject_preference |-> NoPreference,
     context_preference |-> NoPreference]

\* the steps of the try block of route_agent, each of which may raise
AnalysisSteps == <<"keywords", "subject", "context", "decision">>

\* the locals assigned when step number n raises, a being the locals of a full analysis
analysis_before(a, n) ==
    [keyword_scores |-> IF n > 1 THEN a.keyword_scores ELSE NoAnalysis.keyword_scores,
     subject_preference |-> IF n > 2 THEN a.subject_preference ELSE NoPreference,
     context_preference |-> IF n > 3 THEN a.context_preference ELSE NoPreference]

\* as route_agent_failed, with the exception of the step raised to the caller
route_agent_failed_raising(r, a, n) ==
    [r EXCEPT !.pc = "raised", !.analysis = analysis_before(a, n),
              !.failed = AnalysisSteps[n]]

\* the except branch of route_agent: the call returns the assistant with 0.5
route_agent_failed(r, a, n) ==
    [r EXCEPT !.pc = "defaulted", !.analysis = analysis_before(a, n),
              !.failed = AnalysisSteps[n],
              !.result = RoutingResult("assistant", Score(500, 1000), "exception",
                                       <<"expert", "peer">>)]

(***************************************************************************)
(* State                                                                   *)
(***************************************************************************)
VARIABLES
    agent_manager,         \* AgentManager: initialized, agents
    conversation_history,  \* the list the caller passes to collaborate
    auto_config,           \* the AutoConfig the caller passes, or NoConfig
    call,                  \* the locals of the running collaborate call and its position
    trace,                 \* the Router and Responder invocations completed so far
    routing,               \* AgentRouter.route_agent: its arguments, position and result
    sessions               \* the collaborate calls of several requests on one ChatManager

vars ==
    <<agent_manager, conversation_history, auto_config, call, trace, routing, sessions>>

\* an agent object of the registry: its key and the name its messages carry
Agent(id, name) == [id |-> id, name |-> name]

NoneAgent == Agent("None", <<>>)

Participants == {"expert", "assistant", "peer"}

\* AgentManager.get_agent
get_agent(am, agent_type) ==
    IF ~am.initialized THEN NoneAgent
    ELSE IF agent_type \in DOMAIN am.agents THEN am.agents[agent_type]
    ELSE NoneAgent

\* the agent_mapping collaborate builds
agent_mapping_of(am) == [k \in Participants |-> get_agent(am, k)]

\* auto_config = None
NoConfig ==
    [is_none |-> TRUE, enabled |-> FALSE, max_rounds |-> 1,
     continue_on_user_input |-> FALSE, stop_keywords |-> <<>>]

IdleCall ==
    [pc |-> "idle", responses |-> <<>>, current_history |-> <<>>, max_rounds |-> 0,
     rounds_done |-> 0, entered_dynamic |-> FALSE, dynamic_rounds_done |-> 0,
     dynamic_max_rounds |-> 0, user_just_spoke |-> FALSE, round_num |-> 0,
     in_fixed_stage |-> FALSE, agent_key |-> None, selected_agent |-> NoneAgent,
     decision_content |-> None, returned |-> <<>>, current_history_is_copy |-> FALSE]

\* no route_agent call is under way
NoRouting == [pc |-> "none"]

\* no request besides the one of `call` is served
NoSessions == <<>>

\* the outcome of one invocation of the Router or of a Responder
Returned(content) == [raised |-> FALSE, content |-> content]

Raised == [raised |-> TRUE, content |-> None]

(***************************************************************************)
(* ChatManager._route_next_speaker and ChatManager._get_agent_response     *)
(***************************************************************************)
\* as route_next_speaker, with a failure of the Router ending the loop
route_next_speaker_stop_on_failure(outcome, agent_mapping) ==
    IF outcome.raised
    THEN [agent_key |-> s_STOP, selected_agent |-> NoneAgent]
    ELSE IF Contains(Upper(outcome.content), s_STOP)
    THEN [agent_key |-> s_STOP, selected_agent |-> NoneAgent]
    ELSE parse_routing_decision(outcome.content, agent_mapping)

\* as route_next_speaker, with STOP looked for in upper case only
route_next_speaker_case_sensitive(outcome, agent_mapping) ==
    IF outcome.raised
    THEN [agent_key |-> s_expert, selected_agent |-> agent_mapping["expert"]]
    ELSE IF Contains(outcome.content, s_STOP)
    THEN [agent_key |-> s_STOP, selected_agent |-> NoneAgent]
    ELSE parse_routing_decision(outcome.content, agent_mapping)

route_next_speaker(outcome, agent_mapping) ==
    IF outcome.raised
    THEN [agent_key |-> s_expert, selected_agent |-> agent_mapping["expert"]]
    ELSE IF Contains(Upper(outcome.content), s_STOP)
    THEN [agent_key |-> s_STOP, selected_agent |-> NoneAgent]
    ELSE parse_routing_decision(outcome.content, agent_mapping)

\* as get_agent_response, with the key of the agent as the role of its message
get_agent_response_key_as_role(agent, content) ==
    [role |-> KeyText(agent.id), content |-> content]

get_agent_response(agent, content) == [role |-> agent.name, content |-> content]

(***************************************************************************)
(* ChatManager._multi_round_collaborate, cut at its two awaits             *)
(***************************************************************************)
\* return responses
return_responses(c) == [c EXCEPT !.pc = "returned", !.returned = c.responses]

\* as stop_keyword_hit, without the lower-casing of content and keywords
stop_keyword_hit_case_sensitive(response, config) ==
    LET content_norm == Strip(response.content)
        keywords_norm == [i \in DOMAIN config.stop_keywords |->
                             Strip(config.stop_keywords[i])]
    IN  \E i \in DOMAIN keywords_norm :
            keywords_norm[i] # <<>> /\ Contains(content_norm, keywords_norm[i])

\* some configured stop keyword, non-empty once normalised, is in the content
stop_keyword_hit(response, config) ==
    LET content_norm == Lower(Strip(response.content))
        keywords_norm == [i \in DOMAIN config.stop_keywords |->
                             Lower(Strip(config.stop_keywords[i]))]
    IN  \E i \in DOMAIN keywords_norm :
            keywords_norm[i] # <<>> /\ Contains(content_norm, keywords_norm[i])

\* as dynamic_cap, without the limit of one round after the user spoke
dynamic_cap_remaining_only(c, config) == c.max_rounds - c.rounds_done

\* as dynamic_cap, with the user's intervention looked for in the working history
\* at the moment the dynamic stage is entered
dynamic_cap_working_history(c, config) ==
    IF detect_user_intervention(c.current_history) /\ ~config.continue_on_user_input
    THEN 1
    ELSE c.max_rounds - c.rounds_done

\* the cap of the dynamic stage, set on its first round
dynamic_cap(c, config) ==
    IF c.user_just_spoke /\ ~config.continue_on_user_input
    THEN 1
    ELSE c.max_rounds - c.rounds_done

\* a round of the dynamic stage up to the Router's await; d.dynamic_max_rounds is set
dynamic_round(d) ==
    IF d.dynamic_rounds_done >= d.dynamic_max_rounds
    THEN return_responses(d)
    ELSE [d EXCEPT !.pc = "route"]

\* as round_in_stage, with the peer speaking in fixed order once the stage is over
round_in_stage_fixed_peer(c, stage, config, agent_mapping) ==
    [c EXCEPT !.pc = "respond", !.in_fixed_stage = TRUE,
              !.selected_agent = IF stage.in_fixed_stage
                                 THEN agent_mapping[stage.next_fixed_agent]
                                 ELSE agent_mapping["peer"],
              !.agent_key = IF stage.in_fixed_stage
                            THEN KeyText(stage.next_fixed_agent)
                            ELSE s_peer]

\* a round, given the stage check's answer, up to its first await
round_in_stage(c, stage, config, agent_mapping) ==
    IF stage.in_fixed_stage /\ stage.next_fixed_agent # "None"
    THEN [c EXCEPT !.pc = "respond", !.in_fixed_stage = TRUE,
                   !.selected_agent = agent_mapping[stage.next_fixed_agent],
                   !.agent_key = KeyText(stage.next_fixed_agent)]
    ELSE IF ~c.entered_dynamic
    THEN dynamic_round([c EXCEPT !.entered_dynamic = TRUE,
                                 !.dynamic_max_rounds = dynamic_cap(c, config),
                                 !.in_fixed_stage = FALSE])
    ELSE dynamic_round([c EXCEPT !.in_fixed_stage = FALSE])

\* as loop_head, with one iteration more than range(max_rounds) has
loop_head_one_more(c, config, agent_mapping) ==
    IF c.round_num > c.max_rounds THEN return_responses(c)
    ELSE round_in_stage(c, is_in_fixed_order_stage(c.current_history), config,
                        agent_mapping)

\* from the head of the for loop to the next await, or to the return
loop_head(c, config, agent_mapping) ==
    IF c.round_num >= c.max_rounds THEN return_responses(c)
    ELSE round_in_stage(c, is_in_fixed_order_stage(c.current_history), config,
                        agent_mapping)

\* as multi_round_start, with current_history = history in place of history.copy()
multi_round_start_no_copy(history, config, agent_mapping) ==
    loop_head([IdleCall EXCEPT !.current_history = history,
                               !.current_history_is_copy = FALSE,
                               !.max_rounds = config.max_rounds,
                               !.dynamic_max_rounds = config.max_rounds,
                               !.user_just_spoke = detect_user_intervention(history)],
              config, agent_mapping)

\* the call up to its first await
multi_round_start(history, config, agent_mapping) ==
    loop_head([IdleCall EXCEPT !.current_history = history,
                               !.current_history_is_copy = TRUE,
                               !.max_rounds = config.max_rounds,
                               !.dynamic_max_rounds = config.max_rounds,
                               !.user_just_spoke = detect_user_intervention(history)],
              config, agent_mapping)

\* the round after _route_next_speaker returned r
after_route(c, r, outcome) ==
    IF r.agent_key = s_STOP
    THEN return_responses([c EXCEPT !.agent_key = r.agent_key,
                                    !.selected_agent = r.selected_agent,
                                    !.decision_content = outcome.content])
    ELSE [c EXCEPT !.agent_key = r.agent_key, !.selected_agent = r.selected_agent,
                   !.decision_content = outcome.content,
                   !.dynamic_rounds_done = @ + 1, !.pc = "respond"]

\* the Router's invocation is over: the rest of the round up to the Responder's await
multi_round_routed(c, outcome, agent_mapping) ==
    after_route(c, route_next_speaker(outcome, agent_mapping), outcome)

\* as after_append, with the stop keywords looked for in the dynamic stage only
after_append_dynamic_only(d, response, config, agent_mapping) ==
    IF ~d.in_fixed_stage /\ stop_keyword_hit(response, config)
    THEN return_responses(d)
    ELSE loop_head([d EXCEPT !.rounds_done = @ + 1, !.round_num = @ + 1,
                             !.decision_content = None],
                   config, agent_mapping)

\* the round after the response was appended to d's lists
after_append(d, response, config, agent_mapping) ==
    IF stop_keyword_hit(response, config)
    THEN return_responses(d)
    ELSE loop_head([d EXCEPT !.rounds_done = @ + 1, !.round_num = @ + 1,
                             !.decision_content = None],
                   config, agent_mapping)

\* the caller's list once the call is in state c: the list the call appends to when
\* current_history is that list and no copy of it
caller_history(c, history) ==
    IF c.current_history_is_copy THEN history ELSE c.current_history

\* as after_response, with the response left out of the working history
after_response_not_in_history(c, response, config, agent_mapping) ==
    after_append([c EXCEPT !.responses = Append(@, response)],
                 response, config, agent_mapping)

\* the round after _get_agent_response returned response
after_response(c, response, config, agent_mapping) ==
    after_append([c EXCEPT !.responses = Append(@, response),
                           !.current_history = Append(@, response)],
                 response, config, agent_mapping)

\* as multi_round_responded, with the Responder's failure raised to the caller
multi_round_responded_raising(c, outcome, config, agent_mapping) ==
    IF outcome.raised THEN [c EXCEPT !.pc = "raised"]
    ELSE after_response(c, get_agent_response(c.selected_agent, outcome.content),
                        config, agent_mapping)

\* the Responder's invocation is over: the rest of the round and the next loop head
multi_round_responded(c, outcome, config, agent_mapping) ==
    IF outcome.raised THEN return_responses(c)
    ELSE after_response(c, get_agent_response(c.selected_agent, outcome.content),
                        config, agent_mapping)

(***************************************************************************)
(* ChatManager._single_round_collaborate, cut at its two awaits            *)
(***************************************************************************)
\* the call after _parse_routing_decision returned r
after_parse(c, r, outcome) ==
    [c EXCEPT !.agent_key = r.agent_key, !.selected_agent = r.selected_agent,
              !.decision_content = outcome.content, !.pc = "s_respond"]

\* as single_round_routed, with the Router's failure answered by the expert
single_round_routed_recovering(c, outcome, agent_mapping) ==
    IF outcome.raised
    THEN after_parse(c, [agent_key |-> s_expert, selected_agent |-> agent_mapping["expert"]],
                     outcome)
    ELSE after_parse(c, parse_routing_decision(outcome.content, agent_mapping), outcome)

\* as single_round_routed, with the Router's text routed as the multi-round loop
\* routes it: STOP ends the call with no message
single_round_routed_honouring_stop(c, outcome, agent_mapping) ==
    IF outcome.raised THEN [c EXCEPT !.pc = "raised"]
    ELSE IF route_next_speaker(outcome, agent_mapping).agent_key = s_STOP
    THEN [c EXCEPT !.pc = "returned", !.decision_content = outcome.content]
    ELSE after_parse(c, parse_routing_decision(outcome.content, agent_mapping), outcome)

single_round_routed(c, outcome, agent_mapping) ==
    IF outcome.raised THEN [c EXCEPT !.pc = "raised"]
    ELSE after_parse(c, parse_routing_decision(outcome.content, agent_mapping), outcome)

single_round_responded(c, outcome) ==
    IF outcome.raised THEN [c EXCEPT !.pc = "raised"]
    ELSE [c EXCEPT !.pc = "returned",
                   !.returned = <<get_agent_response(c.selected_agent, outcome.content)>>]

(***************************************************************************)
(* ChatManager.collaborate up to the first await of the mode it selects    *)
(***************************************************************************)
\* as collaborate, without the two checks that the agents were found
collaborate_unchecked(am, history, config) ==
    IF config.is_none \/ ~config.enabled
    THEN [IdleCall EXCEPT !.pc = "s_route"]
    ELSE multi_round_start(history, config, agent_mapping_of(am))

\* as collaborate, with the multi-round loop run for every AutoConfig, enabled or not
collaborate_enabled_ignored(am, history, config) ==
    IF get_agent(am, "router") = NoneAgent THEN [IdleCall EXCEPT !.pc = "raised"]
    ELSE IF \E k \in Participants : get_agent(am, k) = NoneAgent
    THEN [IdleCall EXCEPT !.pc = "raised"]
    ELSE IF config.is_none
    THEN [IdleCall EXCEPT !.pc = "s_route"]
    ELSE multi_round_start(history, config, agent_mapping_of(am))

collaborate(am, history, config) ==
    IF get_agent(am, "router") = NoneAgent THEN [IdleCall EXCEPT !.pc = "raised"]
    ELSE IF \E k \in Participants : get_agent(am, k) = NoneAgent
    THEN [IdleCall EXCEPT !.pc = "raised"]
    ELSE IF config.is_none \/ ~config.enabled
    THEN [IdleCall EXCEPT !.pc = "s_route"]
    ELSE multi_round_start(history, config, agent_mapping_of(am))

(***************************************************************************)
(* Inputs                                                                  *)
(***************************************************************************)
\* the largest max_rounds a call is given
MaxRounds == 3

\* role labels of the input history: "Expert Agent", "assistant_agent",
\* " Companion\n" and "User"
r_expert == <<"E", "x", "p", "e", "r", "t", " ", "A", "g", "e", "n", "t">>

r_assistant == s_assistant \o <<"_">> \o s_agent

r_peer == <<" ", "C", "o", "m", "p", "a", "n", "i", "o", "n", "\n">>

r_user == <<"U", "s", "e", "r">>

\* a name that is no alias of any participant
n_renamed == <<"T", "u", "t", "o", "r">>

n_router == <<"r", "o", "u", "t", "e", "r">>

c_hi == <<"h", "i">>

\* contents a Responder returns: "ok" and " Bye now\n"
c_ok == <<"o", "k">>

c_bye == <<" ", "B", "y", "e", " ", "n", "o", "w", "\n">>

ResponseContents == {c_ok, c_bye}

\* stop keywords: "  " and "BYE "
k_blank == <<" ", " ">>

k_bye == <<"B", "Y", "E", " ">>

StopKeywordLists == {<<>>, <<k_blank, k_bye>>}

Quoted(s) == <<"\"">> \o s \o <<"\"">>

\* {"agent":"<key>","reason":"<reason>"}
JsonDecision(key, reason) ==
    <<"{">> \o Quoted(s_agent) \o <<":">> \o Quoted(key) \o <<",">>
    \o Quoted(<<"r", "e", "a", "s", "o", "n">>) \o <<":">> \o Quoted(reason) \o <<"}">>

\* texts the Router returns to the scheduler: a decision object, a text that names
\* nobody, and two texts with STOP in them
t_json_peer == JsonDecision(s_peer, <<"x">>)

t_unknown == <<"n", "o", "b", "o", "d", "y">>

t_stop_text == <<"U+5BF9", "U+8BDD", "U+5DF2", "U+7ECF", "U+7ED3", "U+675F", " ",
                 "S", "T", "O", "P">>

t_stop_json == JsonDecision(s_expert, <<"s", "t", "o", "p">>)

\* STOP alone, and as the agent of a decision object
t_stop_bare == s_STOP

t_stop_agent == JsonDecision(s_STOP, <<"x">>)

SchedulerRouterTexts ==
    {t_json_peer, t_unknown, t_stop_text, t_stop_json, t_stop_bare, t_stop_agent}

\* texts the Router returns to the parser: each key bare, padded, quoted, in a
\* decision object, in an object with blanks and a number, in an object without the
\* agent field, in a text that opens and closes like an object and is none, and
\* quoted inside an object; then objects whose agent field is no text, and texts
\* that only open like an object
DecisionKeys ==
    {s_expert, s_peer, <<"A", "s", "s", "i", "s", "t", "a", "n", "t">>,
     <<"P", "E", "E", "R">>, s_companion, <<>>, <<"S", "t", "o", "p">>}

Padded(s) == <<" ">> \o s \o <<"\n">>

SingleQuoted(s) == <<"'">> \o s \o <<"'">>

\* {"agent": " <key> " , "n": 42}
SpacedDecision(key) ==
    <<"{">> \o Quoted(s_agent) \o <<":", " ">> \o Quoted(<<" ">> \o key \o <<" ">>)
    \o <<" ", ",", " ">> \o Quoted(<<"n">>) \o <<":", " ", "4", "2", "}">>

\* {"reason":"<key>"}
ReasonOnly(key) ==
    <<"{">> \o Quoted(<<"r", "e", "a", "s", "o", "n">>) \o <<":">> \o Quoted(key) \o <<"}">>

\* {agent: <key>}
Unquoted(key) == <<"{">> \o s_agent \o <<":", " ">> \o key \o <<"}">>

\* {"agent":<value>}
AgentValue(value) == <<"{">> \o Quoted(s_agent) \o <<":">> \o value \o <<"}">>

TextsOf(key) ==
    {key, Padded(key), Quoted(key), SingleQuoted(key), SingleQuoted(Padded(key)),
     JsonDecision(key, <<"x">>), Padded(SpacedDecision(key)), ReasonOnly(key),
     Unquoted(key), AgentValue(Quoted(SingleQuoted(key)))}

RouterTexts ==
    UNION {TextsOf(key) : key \in DecisionKeys}
    \cup {AgentValue(<<"4", "2">>), AgentValue(<<"n", "u", "l", "l">>), <<"{", "}">>,
          <<"{">>, Quoted(JsonDecision(s_peer, <<"x">>)), t_unknown, t_stop_text}

\* questions put to route_agent: without a keyword ("hello", "ok?", one that ends
\* with the full-width question mark, and three of 101, 101 and 100 characters), and
\* with keywords of one list, of one list twice, and of two lists
Repeat(c, n) == [i \in 1..n |-> c]

q_hello == <<"h", "e", "l", "l", "o">>

q_ask == <<"o", "k", q_mark>>

q_ask_wide == <<"U+4F60", "U+597D", q_mark_wide>>

q_long == Repeat("a", LongQuestion + 1)

q_long_ask == Repeat("a", LongQuestion) \o <<q_mark>>

q_short_ask == Repeat("a", LongQuestion - 1) \o <<q_mark>>

q_principle == <<"U+539F", "U+7406">>

q_research == <<"U+7814", "U+7A76">>

q_how_learn_discuss == <<"U+5982", "U+4F55", "U+5B66", "U+4E60", "U+8BA8", "U+8BBA">>

\* one keyword of the assistant and one of the peer
q_how_discuss == <<"U+5982", "U+4F55", "U+8BA8", "U+8BBA">>

\* four keywords of the expert and one of the assistant
q_four_to_one ==
    <<"U+539F", "U+7406", "U+7406", "U+8BBA", "U+6982", "U+5FF5", "U+5B9A", "U+4E49",
      "U+5982", "U+4F55">>

Questions ==
    {q_hello, q_ask, q_ask_wide, q_long, q_long_ask, q_short_ask, q_principle,
     q_research, q_how_learn_discuss, q_how_discuss, q_four_to_one}

LongQuestions == {q \in Questions : Len(q) >= LongQuestion}

\* subjects: None, "", "Math", and three with entries of the table in them
Subject(text) == [is_none |-> FALSE, text |-> text]

NoSubject == [is_none |-> TRUE, text |-> <<>>]

Subjects ==
    {NoSubject, Subject(<<>>), Subject(<<"M", "a", "t", "h">>), Subject(<<"U+6570", "U+5B66">>),
     Subject(<<"U+7F16", "U+7A0B", "U+8BED", "U+8A00">>), Subject(<<"U+5386", "U+53F2">>)}

\* contexts: None, and cognitive states with each value on either side of the
\* thresholds 0.4 and 0.7 and on them (in tenths)
NoContext ==
    [is_none |-> TRUE, cognitive_load |-> 0, comprehension_rate |-> 0,
     learning_progress |-> 0]

Contexts ==
    {NoContext} \cup
    [is_none : {FALSE}, cognitive_load : {2, 7, 8}, comprehension_rate : {2, 4, 5, 7, 8},
     learning_progress : {2, 7, 8}]

\* the calls made: every short question with every subject and context, the long
\* ones with no subject or one of the table, and with a context of low load or none
RouteAgentCalls ==
    {r \in [pc : {"asked"}, question : Questions, subject : Subjects, context : Contexts,
            analysis : {NoAnalysis}, failed : {"none"}, result : {NoResult}] :
        r.question \in LongQuestions
        => /\ r.subject.is_none \/ Len(r.subject.text) = 2
           /\ r.context.is_none \/ (r.context.cognitive_load = 2 /\ r.context.learning_progress = 8)}

Message(role, content) == [role |-> role, content |-> content]

\* the histories a caller passes: messages of the participants, each at most once and
\* in any order, then possibly the user's message
SeedRoles == {r_expert, r_assistant, r_peer}

PriorRoleLists ==
    {h \in UNION {[1..n -> SeedRoles] : n \in 0..Cardinality(SeedRoles)} :
        \A i, j \in DOMAIN h : h[i] = h[j] => i = j}

Histories ==
    {[i \in DOMAIN h |-> Message(h[i], c_hi)] \o tail :
        h \in PriorRoleLists, tail \in {<<>>, <<Message(r_user, c_hi)>>}}

\* no AutoConfig, every enabled one, and the disabled ones that ask for MaxRounds
AutoConfigs ==
    {NoConfig} \cup
    {c \in [is_none : {FALSE}, enabled : BOOLEAN, max_rounds : 1..MaxRounds,
            continue_on_user_input : BOOLEAN, stop_keywords : StopKeywordLists] :
        c.enabled \/ c.max_rounds = MaxRounds}

\* the agents _create_agents registers, renamed for the participants in `renamed`
CreatedAgents(renamed) ==
    [k \in Participants \cup {"router"} |->
        IF k \in renamed THEN Agent(k, n_renamed)
        ELSE CASE k = "expert" -> Agent(k, zh_expert)
               [] k = "assistant" -> Agent(k, zh_assistant)
               [] k = "peer" -> Agent(k, zh_peer)
               [] k = "router" -> Agent(k, n_router)]

\* the registry after initialize (with the names of the code, or with the assistant
\* under another name) and the registry before it or after it failed
Registries ==
    {[initialized |-> TRUE, agents |-> CreatedAgents(r)] : r \in {{}, {"assistant"}}}
    \cup {[initialized |-> FALSE, agents |-> [k \in {"expert"} |-> Agent(k, zh_expert)]]}

(***************************************************************************)
(* Actions                                                                 *)
(***************************************************************************)
\* a completed invocation, as the trace records it
Event(op, agent, stage, outcome) ==
    [op |-> op, agent |-> agent, round |-> call.round_num, stage |-> stage,
     raised |-> outcome.raised, content |-> outcome.content,
     seen |-> Len(call.current_history)]

StageOf(c) == IF c.in_fixed_stage THEN "fixed" ELSE "dynamic"

Init ==
    /\ agent_manager \in Registries
    /\ conversation_history \in Histories
    /\ auto_config \in AutoConfigs
    /\ call = IdleCall
    /\ trace = <<>>
    /\ routing = NoRouting
    /\ sessions = NoSessions

Collaborate ==
    /\ call.pc = "idle"
    /\ call' = collaborate(agent_manager, conversation_history, auto_config)
    /\ UNCHANGED <<sessions, routing, agent_manager, conversation_history, auto_config, trace>>

RouterReturns ==
    /\ call.pc = "route"
    /\ \E text \in SchedulerRouterTexts :
        /\ call' = multi_round_routed(call, Returned(text), agent_mapping_of(agent_manager))
        /\ trace' = Append(trace, Event("decide", "router", "dynamic", Returned(text)))
    /\ UNCHANGED <<sessions, routing, agent_manager, conversation_history, auto_config>>

RouterRaises ==
    /\ call.pc = "route"
    /\ call' = multi_round_routed(call, Raised, agent_mapping_of(agent_manager))
    /\ trace' = Append(trace, Event("decide", "router", "dynamic", Raised))
    /\ UNCHANGED <<sessions, routing, agent_manager, conversation_history, auto_config>>

ResponderReturns ==
    /\ call.pc = "respond"
    /\ \E content \in ResponseContents :
        /\ call' = multi_round_responded(call, Returned(content), auto_config,
                                         agent_mapping_of(agent_manager))
        /\ trace' = Append(trace, Event("respond", call.selected_agent.id, StageOf(call),
                                        Returned(content)))
    /\ conversation_history' = caller_history(call', conversation_history)
    /\ UNCHANGED <<sessions, routing, agent_manager, auto_config>>

ResponderRaises ==
    /\ call.pc = "respond"
    /\ call' = multi_round_responded(call, Raised, auto_config,
                                     agent_mapping_of(agent_manager))
    /\ trace' = Append(trace, Event("respond", call.selected_agent.id, StageOf(call), Raised))
    /\ conversation_history' = caller_history(call', conversation_history)
    /\ UNCHANGED <<sessions, routing, agent_manager, auto_config>>

SingleRouterReturns ==
    /\ call.pc = "s_route"
    /\ \E text \in SchedulerRouterTexts :
        /\ call' = single_round_routed(call, Returned(text), agent_mapping_of(agent_manager))
        /\ trace' = Append(trace, Event("decide", "router", "single", Returned(text)))
    /\ UNCHANGED <<sessions, routing, agent_manager, conversation_history, auto_config>>

SingleRouterRaises ==
    /\ call.pc = "s_route"
    /\ call' = single_round_routed(call, Raised, agent_mapping_of(agent_manager))
    /\ trace' = Append(trace, Event("decide", "router", "single", Raised))
    /\ UNCHANGED <<sessions, routing, agent_manager, conversation_history, auto_config>>

SingleResponderReturns ==
    /\ call.pc = "s_respond"
    /\ \E content \in ResponseContents :
        /\ call' = single_round_responded(call, Returned(content))
        /\ trace' = Append(trace, Event("respond", call.selected_agent.id, "single",
                                        Returned(content)))
    /\ UNCHANGED <<sessions, routing, agent_manager, conversation_history, auto_config>>

SingleResponderRaises ==
    /\ call.pc = "s_respond"
    /\ call' = single_round_responded(call, Raised)
    /\ trace' = Append(trace, Event("respond", call.selected_agent.id, "single", Raised))
    /\ UNCHANGED <<sessions, routing, agent_manager, conversation_history, auto_config>>

Next ==
    \/ Collaborate
    \/ RouterReturns
    \/ RouterRaises
    \/ ResponderReturns
    \/ ResponderRaises
    \/ SingleRouterReturns
    \/ SingleRouterRaises
    \/ SingleResponderReturns
    \/ SingleResponderRaises

Spec == Init /\ [][Next]_vars

(***************************************************************************)
(* The parser and the Router's decision on their own: a text of the Router *)
(* is parsed, or is routed as _route_next_speaker routes it                *)
(***************************************************************************)
InitParser ==
    /\ agent_manager \in {r \in Registries : r.initialized}
    /\ conversation_history = <<>>
    /\ auto_config = NoConfig
    /\ call \in {[IdleCall EXCEPT !.pc = "decision", !.decision_content = text] :
                    text \in RouterTexts}
    /\ trace = <<>>
    /\ routing = NoRouting
    /\ sessions = NoSessions

\* the pair a decision step leaves in the call
decided(c, r, pc) ==
    [c EXCEPT !.agent_key = r.agent_key, !.selected_agent = r.selected_agent, !.pc = pc]

ParseDecision ==
    /\ call.pc = "decision"
    /\ call' = decided(call,
                       parse_routing_decision(call.decision_content,
                                              agent_mapping_of(agent_manager)),
                       "parsed")
    /\ UNCHANGED <<sessions, routing, agent_manager, conversation_history, auto_config, trace>>

RouteDecision ==
    /\ call.pc = "decision"
    /\ call' = decided(call,
                       route_next_speaker(Returned(call.decision_content),
                                          agent_mapping_of(agent_manager)),
                       "routed")
    /\ UNCHANGED <<sessions, routing, agent_manager, conversation_history, auto_config, trace>>

NextParser ==
    \/ ParseDecision
    \/ RouteDecision

SpecParser == InitParser /\ [][NextParser]_vars

(***************************************************************************)
(* Calls with any max_rounds: collaborate takes the AutoConfig as it is     *)
(* passed and reads max_rounds without a check                              *)
(***************************************************************************)
\* the AutoConfigs of AutoConfigs and the enabled ones with max_rounds 0 and -1
AnyRoundsConfigs ==
    AutoConfigs \cup
    [is_none : {FALSE}, enabled : {TRUE}, max_rounds : {0, -1},
     continue_on_user_input : BOOLEAN, stop_keywords : StopKeywordLists]

InitAnyRounds ==
    /\ agent_manager \in Registries
    /\ conversation_history \in Histories
    /\ auto_config \in AnyRoundsConfigs
    /\ call = IdleCall
    /\ trace = <<>>
    /\ routing = NoRouting
    /\ sessions = NoSessions

SpecAnyRounds == InitAnyRounds /\ [][Next]_vars

(***************************************************************************)
(* Calls on a registry in which one participant carries a name that is no   *)
(* alias of it                                                              *)
(***************************************************************************)
RenamedRegistries ==
    {[initialized |-> TRUE, agents |-> CreatedAgents({k})] : k \in Participants}

InitRenamed ==
    /\ agent_manager \in RenamedRegistries
    /\ conversation_history \in Histories
    /\ auto_config \in AutoConfigs
    /\ call = IdleCall
    /\ trace = <<>>
    /\ routing = NoRouting
    /\ sessions = NoSessions

SpecRenamed == InitRenamed /\ [][Next]_vars

(***************************************************************************)
(* The life of the registry: initialize, which may fail before or while it  *)
(* creates the agents, and cleanup, followed by a call of collaborate       *)
(***************************************************************************)
\* the largest number of initialize and cleanup operations before the call
MaxRegistryOps == 3

\* the order in which _create_agents registers the agents
CreationOrder == <<"expert", "assistant", "peer", "router">>

\* AgentManager.__init__
NewAgentManager == [initialized |-> FALSE, agents |-> <<>>]

\* self.agents once the first n agents of the creation order are registered again
agents_after(agents, n) ==
    [k \in DOMAIN agents \cup {CreationOrder[i] : i \in 1..n} |->
        IF \E i \in 1..n : CreationOrder[i] = k THEN CreatedAgents({})[k] ELSE agents[k]]

\* initialize raises after n agents were created: initialized is not assigned
initialize_failed(am, n) ==
    [initialized |-> am.initialized, agents |-> agents_after(am.agents, n)]

\* initialize returns
initialized_manager(am) ==
    [initialized |-> TRUE, agents |-> agents_after(am.agents, Len(CreationOrder))]

\* an operation on the registry, as the trace records it
RegistryEvent(op, raised) ==
    [op |-> op, agent |-> "registry", round |-> 0, stage |-> "registry", raised |-> raised,
     content |-> None, seen |-> 0]

RegistryHistories ==
    {<<Message(r_user, c_hi)>>,
     <<Message(r_expert, c_hi), Message(r_assistant, c_hi), Message(r_peer, c_hi),
       Message(r_user, c_hi)>>}

RegistryConfigs ==
    {c \in AutoConfigs :
        c.is_none \/ (c.enabled /\ c.max_rounds = 1 /\ c.continue_on_user_input
                       /\ c.stop_keywords = <<>>)}

InitRegistry ==
    /\ agent_manager = NewAgentManager
    /\ conversation_history \in RegistryHistories
    /\ auto_config \in RegistryConfigs
    /\ call = IdleCall
    /\ trace = <<>>
    /\ routing = NoRouting
    /\ sessions = NoSessions

Initialize ==
    /\ call.pc = "idle"
    /\ Len(trace) < MaxRegistryOps
    /\ agent_manager' = initialized_manager(agent_manager)
    /\ trace' = Append(trace, RegistryEvent("initialize", FALSE))
    /\ UNCHANGED <<sessions, routing, conversation_history, auto_config, call>>

InitializeFails ==
    /\ call.pc = "idle"
    /\ Len(trace) < MaxRegistryOps
    /\ \E n \in 0..(Len(CreationOrder) - 1) :
        agent_manager' = initialize_failed(agent_manager, n)
    /\ trace' = Append(trace, RegistryEvent("initialize", TRUE))
    /\ UNCHANGED <<sessions, routing, conversation_history, auto_config, call>>

Cleanup ==
    /\ call.pc = "idle"
    /\ Len(trace) < MaxRegistryOps
    /\ agent_manager' = NewAgentManager
    /\ trace' = Append(trace, RegistryEvent("cleanup", FALSE))
    /\ UNCHANGED <<sessions, routing, conversation_history, auto_config, call>>

NextRegistry ==
    \/ Initialize
    \/ InitializeFails
    \/ Cleanup
    \/ Next

SpecRegistry == InitRegistry /\ [][NextRegistry]_vars

(***************************************************************************)
(* Sessions opened by init_session: its initial history, the user's         *)
(* messages after it, then a call of collaborate on that history            *)
(***************************************************************************)
\* the most messages the user adds to the initial history before the call
MaxUserMessages == 2

\* the names of the three opening messages
n_ExpertAgent == <<"E", "x", "p", "e", "r", "t", "A", "g", "e", "n", "t">>

n_AssistantAgent == <<"A", "s", "s", "i", "s", "t", "a", "n", "t", "A", "g", "e", "n", "t">>

n_CompanionAgent == <<"C", "o", "m", "p", "a", "n", "i", "o", "n", "A", "g", "e", "n", "t">>

\* the opening words of each of the three messages (the scheduler reads no content of
\* the input history)
c_greeting == <<"U+4F60", "U+597D">>

\* initial_messages, as the history of the ChatSession: role = msg.name
initial_messages ==
    <<Message(n_ExpertAgent, c_greeting), Message(n_AssistantAgent, c_greeting),
      Message(n_CompanionAgent, c_greeting)>>

\* ChatManager.init_session: raises when one of the three agents is not served
init_session(am) ==
    IF \E k \in Participants : get_agent(am, k) = NoneAgent
    THEN [raised |-> TRUE, history |-> <<>>]
    ELSE [raised |-> FALSE, history |-> initial_messages]

\* the configurations of the calls on an opened session
OpeningConfigs == {c \in AutoConfigs : c.is_none \/ c.stop_keywords # <<>>}

InitOpening ==
    /\ agent_manager \in Registries
    /\ conversation_history = <<>>
    /\ auto_config \in OpeningConfigs
    /\ call = IdleCall
    /\ trace = <<>>
    /\ routing = NoRouting
    /\ sessions = NoSessions

InitSession ==
    /\ call.pc = "idle"
    /\ trace = <<>>
    /\ \E opened \in {init_session(agent_manager)} :
        /\ conversation_history' = opened.history
        /\ trace' = Append(trace, RegistryEvent("init_session", opened.raised))
    /\ UNCHANGED <<sessions, routing, agent_manager, auto_config, call>>

\* the client appends a message of the user to the history it holds
UserSpeaks ==
    /\ call.pc = "idle"
    /\ trace # <<>>
    /\ ~trace[1].raised
    /\ Len(conversation_history) < Len(initial_messages) + MaxUserMessages
    /\ conversation_history' = Append(conversation_history, Message(r_user, c_hi))
    /\ UNCHANGED <<sessions, routing, agent_manager, auto_config, call, trace>>

NextOpening ==
    \/ InitSession
    \/ UserSpeaks
    \/ Next

SpecOpening == InitOpening /\ [][NextOpening]_vars

(***************************************************************************)
(* AgentRouter.route_agent on its own                                       *)
(***************************************************************************)
InitRouter ==
    /\ agent_manager \in {r \in Registries : ~r.initialized}
    /\ conversation_history = <<>>
    /\ auto_config = NoConfig
    /\ call = IdleCall
    /\ trace = <<>>
    /\ routing \in RouteAgentCalls
    /\ sessions = NoSessions

RouteAgent ==
    /\ routing.pc = "asked"
    /\ \E a \in {analysis(routing.question, routing.subject, routing.context)} :
           routing' = [routing EXCEPT !.pc = "routed", !.analysis = a,
                                      !.result = final_result(a, routing.question)]
    /\ UNCHANGED <<sessions, agent_manager, conversation_history, auto_config, call, trace>>

\* a step of the analysis raises, and route_agent returns from its except branch
RouteAgentFails ==
    /\ routing.pc = "asked"
    /\ \E a \in {analysis(routing.question, routing.subject, routing.context)} :
        \E n \in DOMAIN AnalysisSteps :
           routing' = route_agent_failed(routing, a, n)
    /\ UNCHANGED <<sessions, agent_manager, conversation_history, auto_config, call, trace>>

NextRouter ==
    \/ RouteAgent
    \/ RouteAgentFails

SpecRouter == InitRouter /\ [][NextRouter]_vars

(***************************************************************************)
(* Several requests served by one ChatManager: their collaborate calls run *)
(* as coroutines of one event loop and interleave at every await           *)
(***************************************************************************)
SessionIds == 1..2

\* a collaborate call awaits the Router, or a Responder
AwaitsRouter(c) == c.pc \in {"route", "s_route"}

AwaitsResponder(c) == c.pc \in {"respond", "s_respond"}

\* the call resumed with the outcome of the invocation it awaits
resumed(c, outcome, config, agent_mapping) ==
    CASE c.pc = "route" -> multi_round_routed(c, outcome, agent_mapping)
      [] c.pc = "respond" -> multi_round_responded(c, outcome, config, agent_mapping)
      [] c.pc = "s_route" -> single_round_routed(c, outcome, agent_mapping)
      [] c.pc = "s_respond" -> single_round_responded(c, outcome)
      [] OTHER -> c

\* as session_resumed, with the working history an attribute of the ChatManager that
\* every call in flight reads and appends to
session_resumed_shared_history(ss, i, outcome, am) ==
    [j \in DOMAIN ss |->
        IF j = i
        THEN [ss[i] EXCEPT !.call = resumed(ss[i].call, outcome, ss[i].auto_config,
                                            agent_mapping_of(am)),
                           !.answers = Append(@, outcome)]
        ELSE IF AwaitsRouter(ss[j].call) \/ AwaitsResponder(ss[j].call)
        THEN [ss[j] EXCEPT !.call.current_history =
                               resumed(ss[i].call, outcome, ss[i].auto_config,
                                       agent_mapping_of(am)).current_history]
        ELSE ss[j]]

\* the sessions once call i is resumed: its locals change, and nothing else does
session_resumed(ss, i, outcome, am) ==
    [ss EXCEPT ![i].call = resumed(ss[i].call, outcome, ss[i].auto_config,
                                   agent_mapping_of(am)),
               ![i].answers = Append(@, outcome)]

\* the requests: a history and an AutoConfig each
SessionHistories ==
    {<<>>, <<Message(r_user, c_hi)>>,
     <<Message(r_expert, c_hi), Message(r_assistant, c_hi), Message(r_peer, c_hi),
       Message(r_user, c_hi)>>}

SessionConfigs ==
    {c \in AutoConfigs :
        c.is_none \/ (c.enabled /\ c.max_rounds = MaxRounds - 1 /\ c.stop_keywords # <<>>)}

RouterOutcomes == {Returned(t_json_peer), Returned(t_stop_text), Raised}

ResponderOutcomes == {Returned(c_ok), Returned(c_bye), Raised}

InitSessions ==
    /\ agent_manager \in {r \in Registries : r.initialized}
    /\ conversation_history = <<>>
    /\ auto_config = NoConfig
    /\ call = IdleCall
    /\ trace = <<>>
    /\ routing = NoRouting
    /\ sessions \in [SessionIds -> [conversation_history : SessionHistories,
                                     auto_config : SessionConfigs,
                                     call : {IdleCall}, answers : {<<>>}]]

SessionCollaborate ==
    /\ \E i \in DOMAIN sessions :
        /\ sessions[i].call.pc = "idle"
        /\ sessions' = [sessions EXCEPT ![i].call =
                            collaborate(agent_manager, sessions[i].conversation_history,
                                        sessions[i].auto_config)]
    /\ UNCHANGED <<agent_manager, conversation_history, auto_config, call, trace, routing>>

SessionRouterAnswers ==
    /\ \E i \in DOMAIN sessions, outcome \in RouterOutcomes :
        /\ AwaitsRouter(sessions[i].call)
        /\ sessions' = session_resumed(sessions, i, outcome, agent_manager)
    /\ UNCHANGED <<agent_manager, conversation_history, auto_config, call, trace, routing>>

SessionResponderAnswers ==
    /\ \E i \in DOMAIN sessions, outcome \in ResponderOutcomes :
        /\ AwaitsResponder(sessions[i].call)
        /\ sessions' = session_resumed(sessions, i, outcome, agent_manager)
    /\ UNCHANGED <<agent_manager, conversation_history, auto_config, call, trace, routing>>

NextSessions ==
    \/ SessionCollaborate
    \/ SessionRouterAnswers
    \/ SessionResponderAnswers

SpecSessions == InitSessions /\ [][NextSessions]_vars

(***************************************************************************)
(* Properties                                                              *)
(***************************************************************************)
MultiMode == ~auto_config.is_none /\ auto_config.enabled

SingleMode == auto_config.is_none \/ ~auto_config.enabled

RegistryComplete ==
    /\ agent_manager.initialized
    /\ DOMAIN agent_manager.agents = Participants \cup {"router"}

\* the role label names participant k: trimmed, in lower case, without spaces and
\* underscores, it is one of k's aliases
NamesParticipant(role, k) == normalize(role) \in normalized_aliases[k]

HasSpoken(history, k) == \E i \in DOMAIN history : NamesParticipant(history[i].role, k)

\* the completed Responder invocations that returned a message, in order
Produced == SelectSeq(trace, LAMBDA e : e.op = "respond" /\ ~e.raised)

ProducedSpeakers == [i \in DOMAIN Produced |-> Produced[i].agent]

ProducedMessages ==
    [i \in DOMAIN Produced |->
        Message(agent_manager.agents[Produced[i].agent].name, Produced[i].content)]

FixedOrder == <<"expert", "assistant", "peer">>

NoAliasInInput == \A k \in Participants : ~HasSpoken(conversation_history, k)

RespondersUseOwnAlias ==
    \A k \in Participants : NamesParticipant(agent_manager.agents[k].name, k)

\* C1: in a multi-round call whose input history names none of the three participants
\* and whose Responders answer under one of their own aliases, the speakers of the
\* first three produced messages are expert, assistant, peer in that order (a prefix
\* of it when fewer are produced), and the Router is not asked before the third.
C1_BootstrapOrder ==
    LET speakers == ProducedSpeakers IN
    \/ /\ Len(call.responses) = Len(speakers)
       /\ \A i \in DOMAIN speakers : i <= Len(FixedOrder) => speakers[i] = FixedOrder[i]
       /\ \A i \in DOMAIN trace :
              trace[i].op = "decide" => trace[i].round >= Len(FixedOrder)
    \/ ~(MultiMode /\ RegistryComplete /\ RespondersUseOwnAlias /\ NoAliasInInput)

C1_Witness ==
    /\ MultiMode /\ RegistryComplete /\ NoAliasInInput /\ RespondersUseOwnAlias
    /\ conversation_history # <<>>
    /\ ~auto_config.continue_on_user_input
    /\ call.pc = "returned"
    /\ ProducedSpeakers = FixedOrder
    /\ call.returned = ProducedMessages

\* C2: the list a multi-round call builds and returns never has more than max_rounds
\* messages, whatever the Router and the Responders do.
C2_AtMostMaxRounds ==
    MultiMode
    => /\ Len(call.responses) <= auto_config.max_rounds
       /\ Len(call.returned) <= auto_config.max_rounds

C2_Witness ==
    /\ MultiMode
    /\ call.pc = "returned"
    /\ auto_config.max_rounds > 1
    /\ Len(call.returned) = auto_config.max_rounds
    /\ \E i \in DOMAIN trace : trace[i].op = "decide" /\ trace[i].raised

LastEvent == trace[Len(trace)]

ContainsKeyword(content, keyword) == Contains(Lower(Strip(content)), Lower(Strip(keyword)))

\* C5 as the specification states it: a produced message whose content contains a
\* configured stop keyword is the last message of the call.
C5_AnyKeywordEndsCall ==
    MultiMode
    => \A i \in DOMAIN call.responses :
           (\E j \in DOMAIN auto_config.stop_keywords :
                ContainsKeyword(call.responses[i].content, auto_config.stop_keywords[j]))
           => i = Len(call.responses) /\ call.pc = "returned"

\* C5, amended: a produced message whose content (trimmed, lower case) contains a
\* configured stop keyword that is not empty once trimmed is the last message of the
\* call, which has returned: no Router or Responder is invoked after it.
C5_NonBlankKeywordEndsCall ==
    MultiMode
    => \A i \in DOMAIN call.responses :
           (\E j \in DOMAIN auto_config.stop_keywords :
                /\ Strip(auto_config.stop_keywords[j]) # <<>>
                /\ ContainsKeyword(call.responses[i].content, auto_config.stop_keywords[j]))
           => /\ i = Len(call.responses)
              /\ call.pc = "returned"
              /\ LastEvent.op = "respond" /\ ~LastEvent.raised

C5_Witness ==
    /\ MultiMode
    /\ call.pc = "returned"
    /\ Len(call.returned) > 1
    /\ Len(call.returned) < auto_config.max_rounds
    /\ LastEvent.op = "respond" /\ ~LastEvent.raised
    /\ \E j \in DOMAIN auto_config.stop_keywords :
           /\ Strip(auto_config.stop_keywords[j]) # <<>>
           /\ ContainsKeyword(call.returned[Len(call.returned)].content,
                              auto_config.stop_keywords[j])

AllSpoken(history) == \A k \in Participants : HasSpoken(history, k)

\* the input history ends with a message whose role is "user" in any letter case
UserSpokeLast ==
    /\ conversation_history # <<>>
    /\ Lower(conversation_history[Len(conversation_history)].role) = s_user

\* C6: when the three participants have all spoken in the input history, its last
\* message is the user's and continue_on_user_input is false, a multi-round call
\* produces and returns at most one message, whatever max_rounds is.
C6_OneRoundAfterUser ==
    \/ Len(call.responses) <= 1 /\ Len(call.returned) <= 1
    \/ ~(/\ MultiMode
         /\ ~auto_config.continue_on_user_input
         /\ UserSpokeLast
         /\ AllSpoken(conversation_history))

C6_Witness ==
    /\ MultiMode
    /\ ~auto_config.continue_on_user_input
    /\ UserSpokeLast
    /\ AllSpoken(conversation_history)
    /\ auto_config.max_rounds > 1
    /\ auto_config.stop_keywords = <<>>
    /\ call.pc = "returned"
    /\ Len(call.returned) = 1
    /\ LastEvent.op = "respond" /\ ~LastEvent.raised

\* C7: in a round of a multi-round call whose working history holds a message of each
\* of the three participants (under any alias, in any order), the speaker does not
\* come from the fixed order: the Router is invoked for that round before any
\* Responder, and a text it returns is resolved by the parser.
C7_DynamicOnceAllSpoke ==
    \/ ~(MultiMode /\ call.pc \in {"route", "respond"})
    \/ ~AllSpoken(call.current_history)
    \/ /\ ~call.in_fixed_stage
       /\ call.pc = "respond"
          => /\ trace # <<>>
             /\ LastEvent.op = "decide"
             /\ LastEvent.round = call.round_num
             /\ ~LastEvent.raised
                => call.selected_agent =
                      parse_routing_decision(LastEvent.content,
                                             agent_mapping_of(agent_manager)).selected_agent

C7_Witness ==
    /\ MultiMode
    /\ call.pc = "respond"
    /\ AllSpoken(call.current_history)
    /\ conversation_history # <<>>
    /\ conversation_history[1].role = r_peer
    /\ call.responses # <<>>
    /\ ~call.in_fixed_stage
    /\ LastEvent.op = "decide" /\ ~LastEvent.raised

\* C8: when the text the Router returns in the dynamic stage contains STOP in any
\* letter case, anywhere, the call returns in that step: the Router's invocation is
\* the last invocation of the call and no message is added.
C8_StopEndsLoop ==
    MultiMode
    => \A i \in DOMAIN trace :
           (/\ trace[i].op = "decide"
            /\ ~trace[i].raised
            /\ Contains(Upper(trace[i].content), s_STOP))
           => /\ i = Len(trace)
              /\ call.pc = "returned"
              /\ call.returned = ProducedMessages

C8_Witness ==
    /\ MultiMode
    /\ call.pc = "returned"
    /\ call.returned # <<>>
    /\ LastEvent.op = "decide"
    /\ LastEvent.content = t_stop_json

\* the candidate of C9: the agent field of the text when, trimmed, it opens with {,
\* closes with } and decodes as a mapping; the trimmed text otherwise.  shown is
\* FALSE for a mapping without an agent field or with one that is no text.
C9_Candidate(text) ==
    LET trimmed == Strip(text)
        decoded == json_loads(trimmed)
    IN  IF trimmed # <<>> /\ Head(trimmed) = "{" /\ trimmed[Len(trimmed)] = "}" /\ decoded.ok
        THEN [shown |-> decoded.agent.present /\ decoded.agent.kind = "str",
              text |-> decoded.agent.str]
        ELSE [shown |-> TRUE, text |-> trimmed]

\* the participant of C9: the candidate trimmed, without the quote characters around
\* it and in lower case, when that names a participant; the expert otherwise
C9_Reference(text) ==
    LET candidate == C9_Candidate(text)
        key == Lower(StripChars(Strip(candidate.text), QuoteChars))
    IN  IF ~candidate.shown THEN "expert"
        ELSE IF key = s_assistant THEN "assistant"
        ELSE IF key = s_peer THEN "peer"
        ELSE "expert"

NoStop(text) == ~Contains(Upper(text), s_STOP)

\* C9: for every text of the Router without STOP in it, the parser, called directly or
\* through the routing step, selects the registry's agent of the reference
\* participant: the agent field of a text that decodes as a mapping, the trimmed text
\* otherwise, trimmed, unquoted and in lower case, and the expert for every value that
\* is not expert, assistant or peer; {"agent":"peer","reason":"x"} selects the peer.
C9_ParserSelectsReference ==
    (call.pc \in {"parsed", "routed"} /\ NoStop(call.decision_content))
    => /\ call.selected_agent = get_agent(agent_manager, C9_Reference(call.decision_content))
       /\ call.selected_agent # NoneAgent
       /\ call.decision_content = t_json_peer => call.selected_agent.id = "peer"

C9_Witness ==
    /\ call.pc = "routed"
    /\ call.decision_content = t_json_peer
    /\ call.selected_agent = get_agent(agent_manager, "peer")
    /\ call.agent_key = s_peer

\* C10: a single-round call on a complete registry invokes the Router once and then
\* one Responder, the one the parser selects for the Router's text, and returns the one
\* message that Responder produced; when either invocation fails, the failure is
\* raised to the caller, nothing is returned and nothing more is invoked.
C10_SingleRound ==
    (SingleMode /\ RegistryComplete)
    => /\ Len(trace) <= 2
       /\ \A i \in DOMAIN trace :
              /\ trace[i].stage = "single"
              /\ trace[i].op = (IF i = 1 THEN "decide" ELSE "respond")
              /\ trace[i].raised => i = Len(trace) /\ call.pc = "raised"
       /\ call.pc = "raised" => call.returned = <<>> /\ trace # <<>> /\ LastEvent.raised
       /\ call.pc = "returned"
          => /\ Len(trace) = 2
             /\ Len(call.returned) = 1
             /\ call.returned = ProducedMessages
             /\ trace[2].agent =
                   parse_routing_decision(trace[1].content,
                                          agent_mapping_of(agent_manager)).selected_agent.id

C10_Witness ==
    /\ SingleMode /\ RegistryComplete
    /\ conversation_history = <<>>
    /\ call.pc = "returned"
    /\ Len(call.returned) = 1
    /\ trace[1].content = t_json_peer
    /\ call.returned[1].role = zh_peer

\* get_agent finds no agent under the Router's key or under a participant's
AgentMissing ==
    \E k \in Participants \cup {"router"} : get_agent(agent_manager, k) = NoneAgent

\* C11: when get_agent finds no Router or no expert, assistant or peer, a call in
\* either mode is raised to the caller before any round runs: neither the Router nor
\* a Responder is invoked, no message is produced and nothing is returned.
C11_MissingAgentAborts ==
    AgentMissing
    => /\ call.pc \in {"idle", "raised"}
       /\ trace = <<>>
       /\ call.responses = <<>>
       /\ call.returned = <<>>

C11_Witness ==
    /\ AgentMissing
    /\ MultiMode
    /\ conversation_history # <<>>
    /\ call.pc = "raised"
    /\ trace = <<>>

\* C12: a multi-round call with an AutoConfig whose max_rounds is less than 1 does
\* not return normally: it is raised to the caller before any round.
C12_InvalidConfigRejected ==
    (MultiMode /\ RegistryComplete /\ auto_config.max_rounds < 1)
    => call.pc \in {"idle", "raised"}

\* C13: no step of a call, in either mode, changes the list the caller passed: it has
\* the same messages in the same order after every invocation and at the return,
\* whether the call returns normally, early or is raised.
C13_CallerHistoryUnchanged == [][conversation_history' = conversation_history]_vars

C13_Witness ==
    /\ MultiMode
    /\ conversation_history # <<>>
    /\ call.pc = "returned"
    /\ Len(call.returned) > 1
    /\ LastEvent.op = "respond" /\ LastEvent.raised
    /\ call.current_history = conversation_history \o call.returned

\* the final scores of the call in routing, as numerators over RoutedDen
RoutedScores ==
    final_scores(routing.analysis.keyword_scores, routing.analysis.subject_preference,
                 routing.analysis.context_preference)

RoutedDen == 1000 * routing.analysis.keyword_scores.max_score

\* the largest final score is below 0.3
WinningScoreLow == \A k \in DOMAIN RoutedScores : RoutedScores[k] * 10 < 3 * RoutedDen

HasChar(text, c) == \E i \in DOMAIN text : text[i] = c

\* C14 as the specification states it: with the winning score below 0.3, a question of
\* more than 100 characters gives the expert with 0.6, another question with the
\* character ? in it the assistant with 0.6, and every other question the peer with 0.5.
C14_DefaultRulesAsciiMark ==
    (routing.pc = "routed" /\ WinningScoreLow)
    => IF Len(routing.question) > 100
       THEN routing.result.agent_type = "expert" /\ routing.result.confidence = Score(600, 1000)
       ELSE IF HasChar(routing.question, "?")
       THEN /\ routing.result.agent_type = "assistant"
            /\ routing.result.confidence = Score(600, 1000)
       ELSE routing.result.agent_type = "peer" /\ routing.result.confidence = Score(500, 1000)

\* C14, amended: with the winning score below 0.3, a question of more than 100
\* characters gives the expert with 0.6 (also with a question mark in it), another
\* question with ? or the full-width question mark U+FF1F in it the assistant with
\* 0.6, and every other question the peer with 0.5.
C14_DefaultRules ==
    (routing.pc = "routed" /\ WinningScoreLow)
    => IF Len(routing.question) > 100
       THEN routing.result.agent_type = "expert" /\ routing.result.confidence = Score(600, 1000)
       ELSE IF HasChar(routing.question, "?") \/ HasChar(routing.question, "U+FF1F")
       THEN /\ routing.result.agent_type = "assistant"
            /\ routing.result.confidence = Score(600, 1000)
       ELSE routing.result.agent_type = "peer" /\ routing.result.confidence = Score(500, 1000)

C14_Witness ==
    /\ routing.pc = "routed"
    /\ WinningScoreLow
    /\ routing.question = q_long_ask
    /\ ~routing.subject.is_none
    /\ routing.result.agent_type = "expert"
    /\ routing.result.confidence = Score(600, 1000)

\* the call of a request run alone: started on its history and AutoConfig and resumed
\* with the answers from the i-th on
RECURSIVE RunAlone(_, _, _, _, _)
RunAlone(c, answers, i, config, agent_mapping) ==
    IF i > Len(answers) THEN c
    ELSE RunAlone(resumed(c, answers[i], config, agent_mapping), answers, i + 1, config,
                  agent_mapping)

AloneCall(session) ==
    IF session.call.pc = "idle" THEN IdleCall
    ELSE RunAlone(collaborate(agent_manager, session.conversation_history,
                              session.auto_config),
                  session.answers, 1, session.auto_config, agent_mapping_of(agent_manager))

ValidDecisionKeys == {s_expert, s_assistant, s_peer, s_STOP}

\* C16: for every text of the Router, the key the parser returns, and the key the
\* route step returns, is one of expert, assistant, peer and STOP; a text that names
\* no participant gives the key expert
C16_KeyAlwaysValid ==
    call.pc \in {"parsed", "routed"} => call.agent_key \in ValidDecisionKeys

\* the call awaits the Router or a Responder of the multi-round loop
AwaitsInLoop == call.pc \in {"route", "respond"}

\* C17: in a multi-round call the invocations follow one another in causal order: the
\* history passed to an invocation of round N+1 is the input history followed by the
\* N messages produced so far, in order; a Responder of the dynamic stage is invoked
\* only once the Router's decision of that round has been obtained; and the completed
\* invocations are in the order of their rounds, the Router's before the Responder's
C17_SequentialCausal ==
    MultiMode =>
        /\ AwaitsInLoop =>
            /\ call.current_history = conversation_history \o call.responses
            /\ Len(call.responses) = call.round_num
        /\ (call.pc = "respond" /\ ~call.in_fixed_stage) =>
            /\ trace # <<>>
            /\ LastEvent.op = "decide"
            /\ LastEvent.round = call.round_num
        /\ \A i \in DOMAIN trace : trace[i].seen = Len(conversation_history) + trace[i].round
        /\ \A i, j \in DOMAIN trace :
            i < j => \/ trace[i].round < trace[j].round
                     \/ /\ trace[i].round = trace[j].round
                        /\ trace[i].op = "decide"
                        /\ trace[j].op = "respond"
                        /\ j = i + 1

\* C17: the Responder of a dynamic round that follows two produced messages is awaited,
\* the Router's decision of that round being the last invocation completed
C17_Witness ==
    /\ MultiMode
    /\ call.pc = "respond"
    /\ ~call.in_fixed_stage
    /\ call.round_num = 2
    /\ Len(call.responses) = 2
    /\ conversation_history # <<>>
    /\ LastEvent.op = "decide"

\* the step in which the call enters the dynamic stage
EntersDynamic == ~call.entered_dynamic /\ call'.entered_dynamic

\* the working history ends with a message whose role is "user"
WorkingHistoryEndsWithUser(c) ==
    /\ c.current_history # <<>>
    /\ is_user_message(c.current_history[Len(c.current_history)])

\* C18 as the specification states it: on the first entry into the dynamic stage the
\* cap is 1 when continue_on_user_input is false and the last message of the working
\* history at that moment is the user's, and max_rounds minus the rounds done otherwise
C18_CapByWorkingHistory ==
    [][EntersDynamic =>
        call'.dynamic_max_rounds =
            IF ~auto_config.continue_on_user_input /\ WorkingHistoryEndsWithUser(call')
            THEN 1
            ELSE call'.max_rounds - call'.rounds_done]_vars

\* C18: on the first entry into the dynamic stage the cap is 1 when
\* continue_on_user_input is false and the last message of the input history is the
\* user's, also when bootstrap rounds were produced in this call before; it is
\* max_rounds minus the rounds done in this call otherwise
C18_CapByInputHistory ==
    [][EntersDynamic =>
        call'.dynamic_max_rounds =
            IF ~auto_config.continue_on_user_input
               /\ conversation_history # <<>>
               /\ is_user_message(conversation_history[Len(conversation_history)])
            THEN 1
            ELSE call'.max_rounds - call'.rounds_done]_vars

\* C18: the input history ends with the user's message, a bootstrap round was produced
\* in this call, and the dynamic stage was entered with more than one round left
C18_Witness ==
    /\ MultiMode
    /\ ~auto_config.continue_on_user_input
    /\ UserSpokeLast
    /\ call.entered_dynamic
    /\ call.pc = "route"
    /\ call.rounds_done >= 1
    /\ call.max_rounds - call.rounds_done > 1
    /\ call.dynamic_rounds_done = 0
    /\ call.dynamic_max_rounds = 1

\* a Responder of the bootstrap stage returned a message under a name that is no alias
\* of the participant it was selected as
RenamedSpeaker(e) ==
    /\ e.op = "respond"
    /\ e.stage = "fixed"
    /\ ~e.raised
    /\ normalize(agent_manager.agents[e.agent].name) \notin normalized_aliases[e.agent]

\* C19: once the participant next in the fixed order has answered under a name that is
\* no alias of it, every later round of the call selects that participant again, no
\* other participant and no Router is invoked, and the call returns with max_rounds
\* messages unless a failure or a stop keyword ended the loop
C19_RenamedRepeats ==
    MultiMode =>
        \A i \in DOMAIN trace :
            RenamedSpeaker(trace[i]) =>
                /\ \A j \in (i + 1)..Len(trace) :
                    /\ trace[j].op = "respond"
                    /\ trace[j].stage = "fixed"
                    /\ trace[j].agent = trace[i].agent
                /\ \A j \in DOMAIN trace : trace[j].op # "decide"
                /\ call.pc # "route"
                /\ call.pc = "respond" => call.selected_agent.id = trace[i].agent
                /\ call.pc = "returned" =>
                    \/ Len(call.returned) = auto_config.max_rounds
                    \/ LastEvent.raised
                    \/ stop_keyword_hit(call.returned[Len(call.returned)], auto_config)

\* C19: a call on a history in which only the expert has spoken returned max_rounds
\* messages, all of them of the assistant under its other name
C19_Witness ==
    /\ MultiMode
    /\ call.pc = "returned"
    /\ HasSpoken(conversation_history, "expert")
    /\ ~HasSpoken(conversation_history, "peer")
    /\ Len(call.returned) = auto_config.max_rounds
    /\ Len(trace) = MaxRounds
    /\ \A i \in DOMAIN trace : RenamedSpeaker(trace[i]) /\ trace[i].agent = "assistant"

\* the Router's invocations of the multi-round loop, the one awaited included
RouterInvocations ==
    Cardinality({i \in DOMAIN trace : trace[i].op = "decide"})
    + (IF call.pc = "route" THEN 1 ELSE 0)

\* the messages produced in the bootstrap stage of this call
BootstrapMessages ==
    Cardinality({i \in DOMAIN trace :
                    trace[i].op = "respond" /\ trace[i].stage = "fixed" /\ ~trace[i].raised})

\* C20: in a multi-round call the Router is invoked only when the expert, the assistant
\* and the peer have all spoken in the working history; its invocations are at most
\* max_rounds minus the bootstrap messages produced in the call; and no answer of the
\* Router, STOP included, ends a call whose bootstrap stage is not complete
C20_RouterAfterBootstrap ==
    MultiMode =>
        /\ call.pc = "route" => AllSpoken(call.current_history)
        /\ \A i \in DOMAIN trace :
            trace[i].op = "decide"
            => AllSpoken(SubSeq(call.current_history, 1, trace[i].seen))
        /\ RouterInvocations > 0
            => RouterInvocations <= auto_config.max_rounds - BootstrapMessages
        /\ (call.pc = "returned" /\ ~AllSpoken(call.current_history))
            => \A i \in DOMAIN trace : trace[i].op = "respond"

\* C20: the call produced a bootstrap message, then invoked the Router as often as the
\* rounds left allow, and the Router's STOP ended it
C20_Witness ==
    /\ MultiMode
    /\ call.pc = "returned"
    /\ BootstrapMessages = 1
    /\ RouterInvocations = auto_config.max_rounds - BootstrapMessages
    /\ RouterInvocations = 2
    /\ LastEvent.op = "decide"
    /\ Contains(Upper(LastEvent.content), s_STOP)

\* the keyword hits of the routed question, and the largest of them or 1 when all are 0
Hits == routing.analysis.keyword_scores.scores

LargestHits ==
    IF \A p \in Participants : Hits[p] = 0 THEN 1
    ELSE CHOOSE n \in {Hits[p] : p \in Participants} : \A p \in Participants : Hits[p] <= n

\* the combined score of p in thousandths of 1 / LargestHits:
\* 0.4 * hits / largest + 0.35 * 0.8 for the subject + 0.25 * weight for the context
CombinedScore(p) ==
    400 * Hits[p]
    + (IF routing.analysis.subject_preference.agent = p THEN 280 * LargestHits ELSE 0)
    + (IF routing.analysis.context_preference.agent = p
       THEN 25 * routing.analysis.context_preference.tenths * LargestHits ELSE 0)

\* the participant with the largest combined score, the earliest of them in the order
\* expert, assistant, peer
Winner ==
    IF \A p \in Participants : CombinedScore(p) <= CombinedScore("expert") THEN "expert"
    ELSE IF \A p \in Participants : CombinedScore(p) <= CombinedScore("assistant")
    THEN "assistant"
    ELSE "peer"

RoutedContext == routing.context

ContextSignal == routing.analysis.context_preference

\* C22: the context score comes from the first true rule only, in the order cognitive
\* load above 0.7 (peer, 0.6), comprehension rate below 0.4 (assistant, 0.7), learning
\* progress and comprehension rate both above 0.7 (expert, 0.6); a load above 0.7 gives
\* the peer also with a comprehension rate below 0.4; no context, and a context that
\* matches no rule, give no signal; the context adds to the score of one participant
\* at most
C22_FirstContextRule ==
    routing.pc = "routed" =>
        /\ RoutedContext.is_none => ContextSignal = NoPreference
        /\ (~RoutedContext.is_none /\ RoutedContext.cognitive_load > 7)
            => ContextSignal = [agent |-> "peer", tenths |-> 6]
        /\ (~RoutedContext.is_none /\ RoutedContext.cognitive_load <= 7
            /\ RoutedContext.comprehension_rate < 4)
            => ContextSignal = [agent |-> "assistant", tenths |-> 7]
        /\ (~RoutedContext.is_none /\ RoutedContext.cognitive_load <= 7
            /\ RoutedContext.comprehension_rate > 7 /\ RoutedContext.learning_progress > 7)
            => ContextSignal = [agent |-> "expert", tenths |-> 6]
        /\ (~RoutedContext.is_none /\ RoutedContext.cognitive_load <= 7
            /\ RoutedContext.comprehension_rate >= 4
            /\ (RoutedContext.comprehension_rate <= 7 \/ RoutedContext.learning_progress <= 7))
            => ContextSignal = NoPreference
        /\ Cardinality({p \in Participants :
                           CombinedScore(p) # 400 * Hits[p]
                                + (IF routing.analysis.subject_preference.agent = p
                                   THEN 280 * LargestHits ELSE 0)}) <= 1

\* C22: a context with a cognitive load above 0.7 and a comprehension rate below 0.4
\* was given, and the peer received the context weight 0.6
C22_Witness ==
    /\ routing.pc = "routed"
    /\ ~RoutedContext.is_none
    /\ RoutedContext.cognitive_load > 7
    /\ RoutedContext.comprehension_rate < 4
    /\ ContextSignal = [agent |-> "peer", tenths |-> 6]
    /\ routing.result.agent_type = "peer"

\* the fallbacks of the routed call
Fallbacks == routing.result.fallback_agents

WinningScoreReached == CombinedScore(Winner) * 10 >= 3000 * LargestHits

\* C23: with a winning score of 0.3 or more, the fallbacks are the participants other
\* than the winner whose combined score is above 0.1, each once, by descending score;
\* the confidence is the smaller of the winning score and 1.0, between 0 and 1
C23_FallbacksAndConfidence ==
    (routing.pc = "routed" /\ WinningScoreReached) =>
        /\ {Fallbacks[i] : i \in DOMAIN Fallbacks}
           = {p \in Participants \ {Winner} : CombinedScore(p) * 10 > 1000 * LargestHits}
        /\ \A i, j \in DOMAIN Fallbacks :
            i < j => /\ Fallbacks[i] # Fallbacks[j]
                     /\ CombinedScore(Fallbacks[i]) >= CombinedScore(Fallbacks[j])
        /\ routing.result.agent_type = Winner
        /\ routing.result.confidence.den = 1000 * LargestHits
        /\ routing.result.confidence.num =
               IF CombinedScore(Winner) < 1000 * LargestHits
               THEN CombinedScore(Winner) ELSE 1000 * LargestHits
        /\ routing.result.confidence.num >= 0
        /\ routing.result.confidence.num <= routing.result.confidence.den

\* C23: the assistant won, the peer and the expert are the fallbacks in that order,
\* the peer with the larger score
C23_Witness ==
    /\ routing.pc = "routed"
    /\ WinningScoreReached
    /\ routing.result.agent_type = "assistant"
    /\ Fallbacks = <<"peer", "expert">>
    /\ CombinedScore("peer") > CombinedScore("expert")
    /\ CombinedScore("expert") * 10 > 1000 * LargestHits

\* C23: a participant with a combined score of 0.1, and no more, is no fallback
C23_WitnessAtThreshold ==
    /\ routing.pc = "routed"
    /\ WinningScoreReached
    /\ CombinedScore("assistant") * 10 = 1000 * LargestHits
    /\ Fallbacks = <<>>

\* C24: route_agent never raises: when a step of the analysis (keywords, subject,
\* context or final decision) fails, the call returns the assistant with confidence
\* 0.5 and the fallbacks expert, peer, whatever the question, subject and context
C24_FailureGivesDefault ==
    /\ routing.pc # "raised"
    /\ (routing.pc # "none" /\ routing.pc # "asked" /\ routing.failed # "none") =>
        /\ routing.pc = "defaulted"
        /\ routing.result.agent_type = "assistant"
        /\ routing.result.confidence = Score(500, 1000)
        /\ routing.result.fallback_agents = <<"expert", "peer">>

\* C24: the final decision failed on a long question with a keyword score of 0, a
\* subject of the expert and a context of the peer, and the assistant was returned
C24_Witness ==
    /\ routing.pc = "defaulted"
    /\ routing.failed = "decision"
    /\ Len(routing.question) > LongQuestion
    /\ routing.analysis.subject_preference.agent = "expert"
    /\ routing.result.agent_type = "assistant"
    /\ routing.result.fallback_agents = <<"expert", "peer">>

\* texts of the Router with STOP in them that name no participant
StopTexts == {t_stop_bare, t_stop_agent, t_stop_text}

StopDecision(e) == e.op = "decide" /\ ~e.raised /\ e.content \in StopTexts

\* C25: on a text of the Router with STOP in it that names no participant, the
\* single-round call invokes the expert and returns its message, and the multi-round
\* call in its dynamic stage ends with no message of that round
C25_SingleRoundIgnoresStop ==
    (trace # <<>> /\ StopDecision(trace[1]) /\ SingleMode) =>
        /\ call.selected_agent.id = "expert"
        /\ Len(trace) = 1 => call.pc = "s_respond"
        /\ Len(trace) > 1 =>
            /\ Len(trace) = 2
            /\ trace[2].op = "respond" /\ trace[2].agent = "expert"
            /\ trace[2].raised => call.pc = "raised"
            /\ ~trace[2].raised =>
                /\ call.pc = "returned"
                /\ call.returned
                   = <<Message(agent_manager.agents["expert"].name, trace[2].content)>>

\* C25: the multi-round call ends on the same texts with no message of that round
C25_MultiRoundStops ==
    MultiMode =>
        \A i \in DOMAIN trace :
            StopDecision(trace[i]) =>
                /\ i = Len(trace)
                /\ call.pc = "returned"
                /\ Len(call.returned) = trace[i].round

\* C25: both halves
C25_ModesDiffer == C25_SingleRoundIgnoresStop /\ C25_MultiRoundStops

\* C25: the single-round call returned the expert's message after the Router said STOP
C25_Witness ==
    /\ SingleMode
    /\ Len(trace) = 2
    /\ trace[1].op = "decide" /\ trace[1].content = t_stop_agent
    /\ call.pc = "returned"
    /\ Len(call.returned) = 1

\* the outcomes of the invocations completed so far, in order
TraceAnswers == [i \in DOMAIN trace |-> [raised |-> trace[i].raised, content |-> trace[i].content]]

\* the participant a text of the Router resolves to
ResolvedSpeaker(text) == IF text = t_json_peer THEN "peer" ELSE "expert"

\* C26: a call with no AutoConfig, or with a disabled one, never applies the fixed
\* order: whatever the history, the speaker is the one the Router's text resolves to,
\* and max_rounds, continue_on_user_input and stop_keywords change nothing: the call is
\* at every moment the call with no AutoConfig on the empty history, given the same
\* answers
C26_SingleRoundOnly ==
    SingleMode =>
        /\ Len(trace) <= 2
        /\ \A i \in DOMAIN trace :
            /\ trace[i].stage = "single"
            /\ trace[i].op = "respond" =>
                /\ i = 2
                /\ trace[1].op = "decide"
                /\ trace[i].agent = ResolvedSpeaker(trace[1].content)
        /\ call.pc = "returned" => Len(call.returned) = 1
        /\ call = IF call.pc = "idle" THEN IdleCall
                  ELSE RunAlone(collaborate(agent_manager, <<>>, NoConfig), TraceAnswers, 1,
                                NoConfig, agent_mapping_of(agent_manager))

\* C26: a disabled AutoConfig with max_rounds 3 and stop keywords, a history in which
\* nobody has spoken: the peer, named by the Router, answered with a stop keyword
C26_Witness ==
    /\ ~auto_config.is_none
    /\ ~auto_config.enabled
    /\ auto_config.max_rounds = MaxRounds
    /\ auto_config.stop_keywords # <<>>
    /\ NoAliasInInput
    /\ call.pc = "returned"
    /\ Len(trace) = 2
    /\ trace[1].content = t_json_peer
    /\ trace[2].agent = "peer"
    /\ trace[2].content = c_bye
    /\ Len(call.returned) = 1

\* the content has a configured stop keyword in it that is not empty once trimmed
HasStopKeyword(content) ==
    \E j \in DOMAIN auto_config.stop_keywords :
        /\ Strip(auto_config.stop_keywords[j]) # <<>>
        /\ ContainsKeyword(content, auto_config.stop_keywords[j])

\* a message of the bootstrap stage
BootstrapMessage(e) == e.op = "respond" /\ e.stage = "fixed" /\ ~e.raised

\* C27: the stop keywords are looked for in the bootstrap stage too: a bootstrap
\* message with a non-blank stop keyword in it is the last invocation of the call, which
\* returns with that message as its last element before the other participants speak;
\* a bootstrap message without one, blank keywords being configured or not, ends the
\* call only when it is message number max_rounds
C27_StopKeywordInBootstrap ==
    MultiMode =>
        /\ \A i \in DOMAIN trace :
            (BootstrapMessage(trace[i]) /\ HasStopKeyword(trace[i].content)) =>
                /\ i = Len(trace)
                /\ call.pc = "returned"
                /\ call.returned # <<>>
                /\ call.returned[Len(call.returned)]
                   = Message(agent_manager.agents[trace[i].agent].name, trace[i].content)
        /\ (/\ call.pc = "returned"
            /\ trace # <<>>
            /\ BootstrapMessage(LastEvent)
            /\ ~HasStopKeyword(LastEvent.content))
            => Len(call.returned) = auto_config.max_rounds

\* C27: nobody had spoken, the expert's first message had a stop keyword in it, and
\* the call returned that message alone with two rounds left
C27_Witness ==
    /\ MultiMode
    /\ NoAliasInInput
    /\ auto_config.max_rounds = MaxRounds
    /\ call.pc = "returned"
    /\ Len(trace) = 1
    /\ BootstrapMessage(trace[1])
    /\ trace[1].agent = "expert"
    /\ HasStopKeyword(trace[1].content)
    /\ call.returned = <<Message(zh_expert, c_bye)>>

\* C27: blank keywords are configured, a bootstrap message without a stop keyword was
\* produced, and the call went on to the next participant
C27_WitnessBlank ==
    /\ MultiMode
    /\ \E j \in DOMAIN auto_config.stop_keywords : Strip(auto_config.stop_keywords[j]) = <<>>
    /\ Len(trace) = 1
    /\ BootstrapMessage(trace[1])
    /\ ~HasStopKeyword(trace[1].content)
    /\ call.pc = "respond"
    /\ call.in_fixed_stage

\* the operations on the registry so far, and the invocations of the call after them
RegistryOps == SelectSeq(trace, LAMBDA e : e.stage = "registry")

CallEvents == SelectSeq(trace, LAMBDA e : e.stage # "registry")

\* the most recent initialize returned, and cleanup has not run since
LastInitializeSucceeded ==
    \E i \in DOMAIN RegistryOps :
        /\ RegistryOps[i].op = "initialize"
        /\ ~RegistryOps[i].raised
        /\ \A j \in (i + 1)..Len(RegistryOps) : RegistryOps[j].op \notin {"initialize", "cleanup"}

\* get_agent returns an agent for some key
RegistryServes ==
    \E k \in Participants \cup {"router"} : get_agent(agent_manager, k) # NoneAgent

\* C28: get_agent returns an agent only when the most recent initialize returned and
\* cleanup has not run since; in every other state it returns nothing for every key,
\* and collaborate is raised to the caller with no Router or Responder invoked
C28_ServesOnlyAfterLastInitialize ==
    ~LastInitializeSucceeded =>
        /\ ~RegistryServes
        /\ call.pc \in {"idle", "raised"}
        /\ CallEvents = <<>>

\* the session was opened by init_session, which returned
OpenedByInitSession ==
    /\ trace # <<>>
    /\ trace[1].op = "init_session"
    /\ ~trace[1].raised

\* the events of the call on the opened session
OpenedCallEvents == SubSeq(trace, 2, Len(trace))

\* C29: a multi-round call whose history is the initial history of init_session,
\* followed by at most MaxUserMessages messages of the user, takes the stage check's
\* answer "bootstrap complete": its first await is the Router's, no Responder is
\* ever invoked in the fixed-order stage, and every Responder invocation follows an
\* invocation of the Router
C29_InitialHistoryIsBootstrap ==
    (OpenedByInitSession /\ MultiMode) =>
        /\ ~is_in_fixed_order_stage(conversation_history).in_fixed_stage
        /\ call.pc = "respond" => ~call.in_fixed_stage
        /\ (call.pc \notin {"idle", "raised"} /\ OpenedCallEvents = <<>>)
            => call.pc = "route"
        /\ OpenedCallEvents # <<>>
            => /\ OpenedCallEvents[1].op = "decide"
               /\ OpenedCallEvents[1].seen = Len(conversation_history)
        /\ \A i \in DOMAIN OpenedCallEvents :
            OpenedCallEvents[i].op = "respond"
            => /\ OpenedCallEvents[i].stage = "dynamic"
               /\ i > 1
               /\ OpenedCallEvents[i - 1].op = "decide"

\* C29: on the initial history followed by a message of the user the Router chose
\* the first speaker, who answered in the dynamic stage
C29_Witness ==
    /\ OpenedByInitSession
    /\ MultiMode
    /\ Len(trace) >= 3
    /\ trace[2].op = "decide"
    /\ trace[2].seen = Len(initial_messages) + 1
    /\ trace[3].op = "respond"
    /\ trace[3].stage = "dynamic"
    /\ ~trace[3].raised

\* the question of the routed call contains no keyword of any participant
NoHits == \A p \in Participants : Hits[p] = 0

\* the preference _analyze_subject returned for the routed call
SubjectSignal == routing.analysis.subject_preference

\* the subject and the context select the same participant
SignalsAgree == SubjectSignal.agent # "None" /\ SubjectSignal.agent = ContextSignal.agent

\* C30: without a keyword in the question, a subject signal alone (0.28), a context
\* signal alone (0.175 at most) and two signals for different participants leave every
\* combined score below 0.3 and the result is the one of the default rules; the
\* signals give the winner exactly when both select the same participant; with a
\* keyword in the question the winning score is 0.4 or more and the result is never
\* the one of the default rules
C30_SignalsWithoutKeywords ==
    routing.pc = "routed" =>
        /\ (NoHits /\ ~SignalsAgree)
            => /\ \A p \in Participants :
                    /\ CombinedScore(p) <= 280
                    /\ CombinedScore(p) * 10 < 3000
               /\ ContextSignal.agent # "None"
                    => CombinedScore(ContextSignal.agent) <= 175
               /\ routing.result.reason # "generated"
               /\ routing.result = apply_default_rules(routing.question)
        /\ (NoHits /\ SignalsAgree)
            => /\ routing.result.reason = "generated"
               /\ routing.result.agent_type = SubjectSignal.agent
               /\ routing.result.confidence = Score(280 + 25 * ContextSignal.tenths, 1000)
        /\ ~NoHits
            => /\ CombinedScore(Winner) >= 400 * LargestHits
               /\ routing.result.reason = "generated"
               /\ routing.result.agent_type = Winner
               /\ routing.result.confidence.num * 10 >= 4 * routing.result.confidence.den

\* C30: a question without keywords, a subject of the expert and a context that
\* selects the assistant with 0.7: the default rules give the result
C30_Witness ==
    /\ routing.pc = "routed"
    /\ NoHits
    /\ SubjectSignal.agent = "expert"
    /\ ContextSignal = [agent |-> "assistant", tenths |-> 7]
    /\ CombinedScore("expert") = 280
    /\ CombinedScore("assistant") = 175
    /\ routing.result.reason # "generated"
    /\ routing.result.agent_type = "peer"

\* C30: a question without keywords whose subject and context both select the expert
C30_WitnessAgree ==
    /\ routing.pc = "routed"
    /\ NoHits
    /\ SignalsAgree
    /\ routing.result.agent_type = "expert"
    /\ routing.result.confidence = Score(430, 1000)

====
